---------------------------- MODULE Spec2Model ----------------------------
(***************************************************************************)
(* A model of rlox, a tree-walking interpreter for a Lox dialect.          *)
(*                                                                         *)
(*   - Environment (src/src/eval/environment.rs): a global frame and a     *)
(*     stack of frames, with push_env / pop_env / define / assign / get.   *)
(*   - Evaluator (src/src/eval/expressions.rs, statements.rs): the         *)
(*     recursive visitors, written as recursive operators that take the    *)
(*     evaluator's state and give the result together with the new state.  *)
(*   - The driver (src/src/main.rs, run): one step per top-level           *)
(*     statement.                                                          *)
(*   - TokenStream (src/src/scanning/token/token_stream.rs): the memoizing *)
(*     token view over the lazily scanned input.                           *)
(*                                                                         *)
(* Numbers are f64 in the program and small integers here; `/` is integer  *)
(* division on the operands the programs below use.  The output sink is    *)
(* the sequence of the fragments written to it, and a write succeeds.      *)
(***************************************************************************)
EXTENDS Integers, Sequences, FiniteSets, TLC

VARIABLES
    env,        \* Evaluator.env : [global, stack]
    out,        \* Evaluator.out : the fragments written so far
    stmts,      \* run: the parsed program (tree.stmts)
    pc,         \* run: index of the next top-level statement
    reported,   \* run: the runtime errors printed by the driver
    halted,     \* run: the process has panicked
    apiEnv,     \* Environment under direct use of its API
    apiLast,    \* the last API call on apiEnv, with its pre-state and result
    ts,         \* TokenStream : [it, loc, vec, pos]
    tsLast,     \* the last TokenStream call, with its pre-state and result
    cursor,     \* LocationTrackingIterator under direct use
    cursorLast, \* its input, the characters next has returned, and the last call
    scanner,    \* scan_all in progress : [text, source, loc, vec]
    parser      \* a parse of an expression : [text, tokens, res]

evalVars == <<env, out, stmts, pc, reported, halted>>
apiVars == <<apiEnv, apiLast>>
tokVars == <<ts, tsLast>>
cursorVars == <<cursor, cursorLast>>
scanVars == <<scanner>>
parseVars == <<parser>>
vars ==
    <<env, out, stmts, pc, reported, halted, apiEnv, apiLast, ts, tsLast, cursor,
      cursorLast, scanner, parser>>

---------------------------------------------------------------------------
(* Bounds of the model. *)

\* Deepest nesting of blocks around a program fragment.
MaxNest == 2
\* Longest sequence of calls made on an Environment.
MaxCalls == 5
\* Longest sequence of calls made on a TokenStream.
MaxTokenCalls == 5
\* Calls of the character cursor's methods in one run, and the length of its input.
MaxCursorCalls == 5
MaxTextLen == 3
\* The length of the texts given to scan_all.
MaxScanLen == 3
\* Declarations that parse before the one that does not in a text given to the
\* parser of declarations.
MaxDeclarations == 1

---------------------------------------------------------------------------
(* Locations and spans: src/src/location.rs, src/src/code_span.rs *)

\* `let v = value;`: the value is computed once and then used by In.
Let(value, In(_)) == CHOOSE result \in {In(v) : v \in {value}} : TRUE

Location(line, char) == [line |-> line, char |-> char]

LocationStart == Location(1, 0)

CodeSpan(start, end) == [start |-> start, end |-> end]

\* A span on line 1 from column s to column e.
Span(s, e) == CodeSpan(Location(1, s), Location(1, e))

\* A span on the given line from column s to column e.
SpanOn(line, s, e) == CodeSpan(Location(line, s), Location(line, e))

combine(left, right) == CodeSpan(left.start, right.end)

---------------------------------------------------------------------------
(* Values: src/src/ast/types.rs *)

String(s) == [type |-> "String", val |-> s]
Number(n) == [type |-> "Number", val |-> n]
Boolean(b) == [type |-> "Boolean", val |-> b]
Nil == [type |-> "Nil"]
NativeFunction(f, arity) == [type |-> "NativeFunction", f |-> f, arity |-> arity]
Function(fn) == [type |-> "Function", fn |-> fn]
Class(class) == [type |-> "Class", class |-> class]
Object(class) == [type |-> "Object", class |-> class, properties |-> <<>>]

Value(value, location) == [value |-> value, location |-> location]

as_type(v) == v.type

\* Display for ValueType; an Object has no rendering (todo!()).
Display(v) ==
    CASE v.type = "String" -> v.val
      [] v.type = "Number" -> ToString(v.val)
      [] v.type = "Boolean" -> IF v.val THEN "true" ELSE "false"
      [] v.type = "Nil" -> "nil"
      [] v.type = "NativeFunction" -> "<native fn>"
      [] v.type = "Function" -> "<function>"
      [] v.type = "Class" -> v.class.name.ident

\* PartialEq for ValueType, on the pairs the evaluator compares with `==`.
ValueTypeEq(a, b) ==
    CASE a.type = "String" /\ b.type = "String" -> a.val = b.val
      [] a.type = "Nil" /\ b.type = "Nil" -> TRUE
      [] a.type = "Boolean" /\ b.type = "Boolean" -> a.val = b.val
      [] a.type = "NativeFunction" /\ b.type = "NativeFunction" -> a.f = b.f
      [] a.type = "Number" /\ b.type = "Number" -> a.val = b.val
      [] a.type = "Function" /\ b.type = "Function" -> a.fn = b.fn
      [] OTHER -> FALSE

---------------------------------------------------------------------------
(* Runtime errors: src/src/eval/runtime_error.rs *)

MismatchedTypes(span, actual, allowed) ==
    [kind |-> "MismatchedTypes", span |-> span, actual |-> actual, allowed |-> allowed]
DivisionByZero(span) == [kind |-> "DivisionByZero", span |-> span]
UnboundName(span, name) == [kind |-> "UnboundName", span |-> span, name |-> name]
NotCallable(span) == [kind |-> "NotCallable", span |-> span]
InvalidArgumentCount(span, expected, actual) ==
    [kind |-> "InvalidArgumentCount", span |-> span, expected |-> expected, actual |-> actual]
Return(value) == [kind |-> "Return", value |-> value]
\* todo!() reached: the process aborts.
Panic == [kind |-> "Panic"]

---------------------------------------------------------------------------
(* The AST: src/src/ast/expressions.rs, statements.rs, declarations.rs *)

StringLiteral(s) == [lit |-> "StringLiteral", val |-> s]
NumberLiteral(n) == [lit |-> "NumberLiteral", val |-> n]
LitTrue == [lit |-> "True"]
LitFalse == [lit |-> "False"]
LitNil == [lit |-> "Nil"]

Literal(value, location) == [k |-> "Literal", value |-> value, location |-> location]
Unary(op, expr, location) == [k |-> "Unary", op |-> op, expr |-> expr, location |-> location]
Binary(operator, left, right, location) ==
    [k |-> "Binary", operator |-> operator, left |-> left, right |-> right,
     location |-> location]
Identifier(ident, location) == [k |-> "Identifier", ident |-> ident, location |-> location]
Assignment(ident, expr, location) ==
    [k |-> "Assignment", ident |-> ident, expr |-> expr, location |-> location]
Call(callee, arguments, location) ==
    [k |-> "Call", callee |-> callee, arguments |-> arguments, location |-> location]

None == <<>>
Some(x) == <<x>>

PrintStatement(expr) == [k |-> "Print", expr |-> expr]
ExpressionStatement(expr) == [k |-> "Expression", expr |-> expr]
VariableDeclaration(name, initializer) ==
    [k |-> "VariableDeclaration", name |-> name, initializer |-> initializer]
Block(ss) == [k |-> "Block", stmts |-> ss]
Conditional(condition, then_statement, else_statement) ==
    [k |-> "Conditional", condition |-> condition, then_statement |-> then_statement,
     else_statement |-> else_statement]
WhileLoop(condition, statement) ==
    [k |-> "WhileLoop", condition |-> condition, statement |-> statement]
ForLoop(initializer, condition, increment, body) ==
    [k |-> "ForLoop", initializer |-> initializer, condition |-> condition,
     increment |-> increment, body |-> body]
FunctionDeclaration(name, args, body, span) ==
    [k |-> "FunctionDeclaration", name |-> name,
     function |-> [args |-> args, body |-> body, span |-> span]]
ReturnStatement(expr) == [k |-> "Return", expr |-> expr]
ClassDeclaration(name) == [k |-> "ClassDeclaration", name |-> name]

---------------------------------------------------------------------------
(* Environment: src/src/eval/environment.rs *)

EmptyMap == [x \in {} |-> Nil]

contains_key(map, key) == key \in DOMAIN map

insert(map, key, value) ==
    [x \in DOMAIN map \cup {key} |-> IF x = key THEN value ELSE map[x]]

EnvironmentNew == [global |-> EmptyMap, stack |-> <<>>]

push_env(e) == [e EXCEPT !.stack = Append(@, EmptyMap)]

pop_env(e) ==
    IF Len(e.stack) = 0 THEN e
    ELSE [e EXCEPT !.stack = SubSeq(@, 1, Len(@) - 1)]

\* define, were the binding made in the last frame pushed.
define_innermost(e, identifier, value) ==
    IF Len(e.stack) > 0
    THEN [e EXCEPT !.stack[Len(e.stack)] = insert(@, identifier, value)]
    ELSE [e EXCEPT !.global = insert(@, identifier, value)]

\* self.stack.first_mut(): the frame at index 1, the first one pushed.
define(e, identifier, value) ==
    IF Len(e.stack) > 0
    THEN [e EXCEPT !.stack[1] = insert(@, identifier, value)]
    ELSE [e EXCEPT !.global = insert(@, identifier, value)]

\* assign, were a miss to create the binding in the global frame.
assign_or_define(e, ident, value) ==
    LET holders == {i \in 1..Len(e.stack) : contains_key(e.stack[i], ident)} IN
    IF holders # {}
    THEN LET i == CHOOSE i \in holders : \A j \in holders : j <= i IN
         [ok |-> TRUE, env |-> [e EXCEPT !.stack[i] = insert(@, ident, value.value)]]
    ELSE [ok |-> TRUE, env |-> [e EXCEPT !.global = insert(@, ident, value.value)]]

\* self.stack.iter_mut().rev(): the last frame pushed is tried first.
assign(e, ident, value) ==
    LET hits == {i \in 1..Len(e.stack) : contains_key(e.stack[i], ident)} IN
    IF hits # {}
    THEN LET i == CHOOSE j \in hits : \A h \in hits : h <= j IN
         [ok |-> TRUE, env |-> [e EXCEPT !.stack[i] = insert(@, ident, value.value)]]
    ELSE IF contains_key(e.global, ident)
    THEN [ok |-> TRUE, env |-> [e EXCEPT !.global = insert(@, ident, value.value)]]
    ELSE [ok |-> FALSE, err |-> UnboundName(value.location, ident), env |-> e]

\* get, were the global frame consulted before the stack.
get_global_first(e, identifier) ==
    LET holders == {i \in 1..Len(e.stack) : contains_key(e.stack[i], identifier)} IN
    IF contains_key(e.global, identifier) THEN Some(e.global[identifier])
    ELSE IF holders # {}
    THEN Some(e.stack[CHOOSE i \in holders : \A j \in holders : i <= j][identifier])
    ELSE None

\* for map in &self.stack: the first frame pushed is tried first.
get(e, identifier) ==
    LET hits == {i \in 1..Len(e.stack) : contains_key(e.stack[i], identifier)} IN
    IF hits # {}
    THEN LET i == CHOOSE j \in hits : \A h \in hits : j <= h IN
         Some(e.stack[i][identifier])
    ELSE IF contains_key(e.global, identifier)
    THEN Some(e.global[identifier])
    ELSE None

---------------------------------------------------------------------------
(* Evaluator: src/src/eval/expressions.rs, src/src/eval/statements.rs      *)
(*                                                                         *)
(* The evaluator state is ev = [env, out, now]; `now` is what the clock    *)
(* native reads during the step.  A visitor gives                          *)
(*   [ok |-> TRUE, value |-> Value, ev |-> ev']  (statements: no value) or *)
(*   [ok |-> FALSE, err |-> RuntimeError, ev |-> ev'].                     *)

Ok(value, ev) == [ok |-> TRUE, value |-> value, ev |-> ev]
Done(ev) == [ok |-> TRUE, ev |-> ev]
Err(err, ev) == [ok |-> FALSE, err |-> err, ev |-> ev]

is_truthy(v) == ~(v.type = "Nil" \/ (v.type = "Boolean" /\ v.val = FALSE))

\* The actual type reported is Type::Number (expressions.rs:311).
as_number(value) ==
    IF value.value.type = "Number"
    THEN [ok |-> TRUE, val |-> value.value.val]
    ELSE [ok |-> FALSE, err |-> MismatchedTypes(value.location, "Number", {"Number"})]

as_string(value) ==
    IF value.value.type = "String"
    THEN [ok |-> TRUE, val |-> value.value.val]
    ELSE [ok |-> FALSE,
          err |-> MismatchedTypes(value.location, as_type(value.value), {"String"})]

\* Results of the strict binary operators: [ok, val] or [ok, err].
addition(left, right) ==
    IF as_number(left).ok
    THEN IF as_number(right).ok
         THEN [ok |-> TRUE, val |-> Number(left.value.val + right.value.val)]
         ELSE [ok |-> FALSE,
               err |-> MismatchedTypes(right.location, as_type(right.value), {"Number"})]
    ELSE IF as_string(left).ok
    THEN IF as_string(right).ok
         THEN [ok |-> TRUE, val |-> String(left.value.val \o right.value.val)]
         ELSE [ok |-> FALSE,
               err |-> MismatchedTypes(right.location, as_type(right.value), {"String"})]
    ELSE [ok |-> FALSE,
          err |-> MismatchedTypes(left.location, as_type(left.value), {"Number", "String"})]

\* as_number(&left)? OP as_number(&right)?
numeric(left, right, Op(_, _)) ==
    LET l == as_number(left)
        r == as_number(right) IN
    IF ~l.ok THEN l
    ELSE IF ~r.ok THEN r
    ELSE [ok |-> TRUE, val |-> Op(l.val, r.val)]

subtraction(left, right) == numeric(left, right, LAMBDA l, r : Number(l - r))

multiplication(left, right) == numeric(left, right, LAMBDA l, r : Number(l * r))

\* division, were the error to carry the span of the left operand alone.
division_left_span(left, right) ==
    IF ValueTypeEq(right.value, Number(0))
    THEN [ok |-> FALSE, err |-> DivisionByZero(left.location)]
    ELSE numeric(left, right, LAMBDA l, r : Number(l \div r))

division(left, right) ==
    IF ValueTypeEq(right.value, Number(0))
    THEN [ok |-> FALSE, err |-> DivisionByZero(combine(left.location, right.location))]
    ELSE numeric(left, right, LAMBDA l, r : Number(l \div r))

strict_inferiority(left, right) == numeric(left, right, LAMBDA l, r : Boolean(l < r))

strict_superiority(left, right) == numeric(left, right, LAMBDA l, r : Boolean(l > r))

inferiority(left, right) == numeric(left, right, LAMBDA l, r : Boolean(l <= r))

superiority(left, right) == numeric(left, right, LAMBDA l, r : Boolean(l >= r))

\* Object against Object is todo!(); no arm compares two functions.
test_equality(left, right) ==
    LET l == left.value
        r == right.value IN
    CASE l.type = "Boolean" /\ r.type = "Boolean" -> l.val = r.val
      [] l.type = "Nil" /\ r.type = "Nil" -> TRUE
      [] l.type = "Number" /\ r.type = "Number" -> l.val = r.val
      [] l.type = "String" /\ r.type = "String" -> l.val = r.val
      [] OTHER -> FALSE

equality(left, right) ==
    IF left.value.type = "Object" /\ right.value.type = "Object"
    THEN [ok |-> FALSE, err |-> Panic]
    ELSE [ok |-> TRUE, val |-> Boolean(test_equality(left, right))]

inequality(left, right) ==
    IF left.value.type = "Object" /\ right.value.type = "Object"
    THEN [ok |-> FALSE, err |-> Panic]
    ELSE [ok |-> TRUE, val |-> Boolean(~test_equality(left, right))]

strict_binary(operator, left, right) ==
    CASE operator = "Addition" -> addition(left, right)
      [] operator = "Subtraction" -> subtraction(left, right)
      [] operator = "Multiplication" -> multiplication(left, right)
      [] operator = "Division" -> division(left, right)
      [] operator = "StrictInferiority" -> strict_inferiority(left, right)
      [] operator = "Inferiority" -> inferiority(left, right)
      [] operator = "StrictSuperiority" -> strict_superiority(left, right)
      [] operator = "Superiority" -> superiority(left, right)
      [] operator = "Equality" -> equality(left, right)
      [] operator = "Inequality" -> inequality(left, right)

visit_literal(literal, ev) ==
    LET v == literal.value
        value_type ==
            CASE v.lit = "StringLiteral" -> String(v.val)
              [] v.lit = "NumberLiteral" -> Number(v.val)
              [] v.lit = "True" -> Boolean(TRUE)
              [] v.lit = "False" -> Boolean(FALSE)
              [] v.lit = "Nil" -> Nil
    IN Ok(Value(value_type, literal.location), ev)

visit_identifier(identifier, ev) ==
    LET found == get(ev.env, identifier.ident) IN
    IF found # None
    THEN Ok(Value(found[1], identifier.location), ev)
    ELSE Err(UnboundName(identifier.location, identifier.ident), ev)

\* The natives of the prelude (src/src/eval/builtins.rs): clock.
native(f, arguments, location, ev) ==
    CASE f = "clock" -> [ok |-> TRUE, val |-> Number(ev.now)]

\* for (arg, value) in f.args.iter().zip(arguments) { self.env.define(..) }
RECURSIVE bind_parameters(_, _, _, _)
bind_parameters(e, args, values, i) ==
    IF i > Len(args) THEN e
    ELSE bind_parameters(define(e, args[i].ident, values[i]), args, values, i + 1)

RECURSIVE visit_expression(_, _)
RECURSIVE visit_statement(_, _)
RECURSIVE visit_arguments(_, _, _, _)
RECURSIVE visit_body(_, _, _)
RECURSIVE visit_block_stmts(_, _, _)
RECURSIVE visit_while_loop(_, _)
RECURSIVE for_iterations(_, _)

visit_unary(unary, ev) ==
    Let(visit_expression(unary.expr, ev), LAMBDA operand :
        IF ~operand.ok THEN operand
        ELSE LET v == operand.value.value IN
             IF unary.op = "Minus"
             THEN IF v.type = "Number"
                  THEN Ok(Value(Number(0 - v.val), unary.location), operand.ev)
                  ELSE Err(MismatchedTypes(unary.location, as_type(v), {"Number"}),
                           operand.ev)
             ELSE Ok(Value(Boolean(~is_truthy(v)), unary.location), operand.ev))

\* disjunction, were the right operand evaluated before the left one is tested.
disjunction_eager(left, right, ev) ==
    Let(visit_expression(right, ev), LAMBDA r :
        IF ~r.ok THEN r
        ELSE IF is_truthy(left.value) THEN [ok |-> TRUE, val |-> left.value, ev |-> r.ev]
        ELSE [ok |-> TRUE, val |-> r.value.value, ev |-> r.ev])

\* Gives the ValueType: [ok, val, ev] or [ok, err, ev].
disjunction(left, right, ev) ==
    IF is_truthy(left.value)
    THEN [ok |-> TRUE, val |-> left.value, ev |-> ev]
    ELSE Let(visit_expression(right, ev), LAMBDA r :
             IF r.ok THEN [ok |-> TRUE, val |-> r.value.value, ev |-> r.ev]
             ELSE r)

conjunction(left, right, ev) ==
    IF ~is_truthy(left.value)
    THEN [ok |-> TRUE, val |-> left.value, ev |-> ev]
    ELSE Let(visit_expression(right, ev), LAMBDA r :
             IF r.ok THEN [ok |-> TRUE, val |-> r.value.value, ev |-> r.ev]
             ELSE r)

visit_binary(binary, ev) ==
    Let(visit_expression(binary.left, ev), LAMBDA left :
        IF ~left.ok THEN left
        ELSE IF binary.operator = "Disjunction"
        THEN Let(disjunction(left.value, binary.right, left.ev), LAMBDA d :
                 IF d.ok THEN Ok(Value(d.val, binary.location), d.ev) ELSE d)
        ELSE IF binary.operator = "Conjunction"
        THEN Let(conjunction(left.value, binary.right, left.ev), LAMBDA c :
                 IF c.ok THEN Ok(Value(c.val, binary.location), c.ev) ELSE c)
        ELSE Let(visit_expression(binary.right, left.ev), LAMBDA right :
                 IF ~right.ok THEN right
                 ELSE LET value_type ==
                              strict_binary(binary.operator, left.value, right.value) IN
                      IF value_type.ok
                      THEN Ok(Value(value_type.val, binary.location), right.ev)
                      ELSE Err(value_type.err, right.ev)))

visit_assignment(assignment, ev) ==
    Let(visit_expression(assignment.expr, ev), LAMBDA expr :
        IF ~expr.ok THEN expr
        ELSE Let(assign(expr.ev.env, assignment.ident.ident, expr.value), LAMBDA a :
                 IF a.ok
                 THEN Ok(expr.value, [expr.ev EXCEPT !.env = a.env])
                 ELSE Err(a.err, expr.ev)))

\* for argument in &call.arguments { arguments.push(visit_expression(..)?.value) }
\* Gives [ok |-> TRUE, arguments, ev] or the error of the first failing argument.
visit_arguments(exprs, i, acc, ev) ==
    IF i > Len(exprs) THEN [ok |-> TRUE, arguments |-> acc, ev |-> ev]
    ELSE Let(visit_expression(exprs[i], ev), LAMBDA a :
             IF ~a.ok THEN a
             ELSE visit_arguments(exprs, i + 1, Append(acc, a.value.value), a.ev))

\* visit_body, were the value carried by the Return signal dropped.
RECURSIVE visit_body_drops_value(_, _, _)
visit_body_drops_value(body, i, ev) ==
    IF i > Len(body) THEN [how |-> "end", ret |-> Nil, ev |-> ev]
    ELSE Let(visit_statement(body[i], ev), LAMBDA r :
             IF r.ok THEN visit_body_drops_value(body, i + 1, r.ev)
             ELSE IF r.err.kind = "Return"
             THEN [how |-> "return", ret |-> Nil, ev |-> r.ev]
             ELSE [how |-> "error", err |-> r.err, ev |-> r.ev])

\* for stmt in &f.body.stmts { match self.visit_statement(stmt) {..} }
\* Gives [how |-> "end" | "return" | "error", ret, err, ev].
visit_body(body, i, ev) ==
    IF i > Len(body) THEN [how |-> "end", ret |-> Nil, ev |-> ev]
    ELSE Let(visit_statement(body[i], ev), LAMBDA r :
             IF r.ok THEN visit_body(body, i + 1, r.ev)
             ELSE IF r.err.kind = "Return"
             THEN [how |-> "return", ret |-> r.err.value.value, ev |-> r.ev]
             ELSE [how |-> "error", err |-> r.err, ev |-> r.ev])

\* call_function, were the frame pushed before the arity is checked.
call_function_pushes_first(f, arguments, call, ev) ==
    IF Len(arguments) # Len(f.args)
    THEN Err(InvalidArgumentCount(call.location, Len(f.args), Len(arguments)),
             [ev EXCEPT !.env = push_env(@)])
    ELSE Let(visit_body(f.body, 1,
                        [ev EXCEPT !.env = bind_parameters(push_env(@), f.args,
                                                           arguments, 1)]),
             LAMBDA b :
                 IF b.how = "error" THEN Err(b.err, b.ev)
                 ELSE Ok(Value(b.ret, f.span), [b.ev EXCEPT !.env = pop_env(@)]))

\* The Function arm of visit_call: an error other than Return leaves by
\* `return Err(err)`, before the pop_env that follows the loop.
call_function(f, arguments, call, ev) ==
    IF Len(arguments) # Len(f.args)
    THEN Err(InvalidArgumentCount(call.location, Len(f.args), Len(arguments)), ev)
    ELSE Let(visit_body(f.body, 1,
                        [ev EXCEPT !.env = bind_parameters(push_env(@), f.args,
                                                           arguments, 1)]),
             LAMBDA b :
                 IF b.how = "error" THEN Err(b.err, b.ev)
                 ELSE Ok(Value(b.ret, f.span), [b.ev EXCEPT !.env = pop_env(@)]))

call_native(f, arity, arguments, call, ev) ==
    IF Len(arguments) # arity
    THEN Err(InvalidArgumentCount(call.location, arity, Len(arguments)), ev)
    ELSE LET r == native(f, arguments, call.location, ev) IN
         IF r.ok THEN Ok(Value(r.val, call.location), ev) ELSE Err(r.err, ev)

call_class(class, arguments, call, ev) ==
    IF Len(arguments) # 0
    THEN Err(InvalidArgumentCount(call.location, 0, Len(arguments)), ev)
    ELSE Ok(Value(Object(class), call.location), ev)

\* visit_call, were the kind of the callee checked before the arguments are
\* evaluated.
visit_call_checks_first(call, ev) ==
    Let(visit_expression(call.callee, ev), LAMBDA callee :
        IF ~callee.ok THEN callee
        ELSE IF callee.value.value.type \notin {"NativeFunction", "Function", "Class"}
        THEN Err(NotCallable(callee.value.location), callee.ev)
        ELSE Let(visit_arguments(call.arguments, 1, <<>>, callee.ev), LAMBDA args :
                 IF ~args.ok THEN args
                 ELSE LET c == callee.value.value IN
                      CASE c.type = "NativeFunction" ->
                               call_native(c.f, c.arity, args.arguments, call, args.ev)
                        [] c.type = "Function" ->
                               call_function(c.fn, args.arguments, call, args.ev)
                        [] c.type = "Class" ->
                               call_class(c.class, args.arguments, call, args.ev)))

visit_call(call, ev) ==
    Let(visit_expression(call.callee, ev), LAMBDA callee :
        IF ~callee.ok THEN callee
        ELSE Let(visit_arguments(call.arguments, 1, <<>>, callee.ev), LAMBDA args :
                 IF ~args.ok THEN args
                 ELSE LET c == callee.value.value IN
                      CASE c.type = "NativeFunction" ->
                               call_native(c.f, c.arity, args.arguments, call, args.ev)
                        [] c.type = "Function" ->
                               call_function(c.fn, args.arguments, call, args.ev)
                        [] c.type = "Class" ->
                               call_class(c.class, args.arguments, call, args.ev)
                        [] OTHER -> Err(NotCallable(callee.value.location), args.ev)))

visit_expression(expr, ev) ==
    CASE expr.k = "Literal" -> visit_literal(expr, ev)
      [] expr.k = "Unary" -> visit_unary(expr, ev)
      [] expr.k = "Binary" -> visit_binary(expr, ev)
      [] expr.k = "Identifier" -> visit_identifier(expr, ev)
      [] expr.k = "Assignment" -> visit_assignment(expr, ev)
      [] expr.k = "Call" -> visit_call(expr, ev)

\* Display of an Object is todo!().
visit_print(expr, ev) ==
    Let(visit_expression(expr, ev), LAMBDA value :
        IF ~value.ok THEN value
        ELSE IF value.value.value.type = "Object" THEN Err(Panic, value.ev)
        ELSE Done([value.ev EXCEPT !.out = Append(@, Display(value.value.value))]))

visit_variable_declaration(decl, ev) ==
    Let(visit_expression(decl.initializer, ev), LAMBDA init :
        IF ~init.ok THEN init
        ELSE Done([init.ev EXCEPT !.env = define(@, decl.name.ident, init.value.value)]))

visit_conditional(cond, ev) ==
    Let(visit_expression(cond.condition, ev), LAMBDA value :
        IF ~value.ok THEN value
        ELSE IF is_truthy(value.value.value)
        THEN visit_statement(cond.then_statement, value.ev)
        ELSE IF cond.else_statement # None
        THEN visit_statement(cond.else_statement[1], value.ev)
        ELSE Done(value.ev))

visit_while_loop(while_loop, ev) ==
    Let(visit_expression(while_loop.condition, ev), LAMBDA c :
        IF ~c.ok THEN c
        ELSE IF ~is_truthy(c.value.value) THEN Done(c.ev)
        ELSE Let(visit_statement(while_loop.statement, c.ev), LAMBDA b :
                 IF ~b.ok THEN b
                 ELSE visit_while_loop(while_loop, b.ev)))

\* The loop of visit_for_loop, after the initializer: while cond { body; increment }
\* or, with no condition, loop { body; increment }.
for_iterations(for_loop, ev) ==
    Let(IF for_loop.condition # None
        THEN visit_expression(for_loop.condition[1], ev)
        ELSE Ok(Value(Boolean(TRUE), LocationStart), ev),
        LAMBDA c :
            IF ~c.ok THEN c
            ELSE IF ~is_truthy(c.value.value) THEN Done(c.ev)
            ELSE Let(visit_statement(for_loop.body, c.ev), LAMBDA b :
                     IF ~b.ok THEN b
                     ELSE Let(IF for_loop.increment # None
                              THEN visit_expression(for_loop.increment[1], b.ev)
                              ELSE Done(b.ev),
                              LAMBDA s :
                                  IF ~s.ok THEN s
                                  ELSE for_iterations(for_loop, s.ev))))

\* The `?` on the initializer, the condition, the body and the increment leaves
\* before the pop_env at the end.
visit_for_loop(for_loop, ev) ==
    Let(IF for_loop.initializer # None
        THEN visit_statement(for_loop.initializer[1], [ev EXCEPT !.env = push_env(@)])
        ELSE Done([ev EXCEPT !.env = push_env(@)]),
        LAMBDA init :
            IF ~init.ok THEN init
            ELSE Let(for_iterations(for_loop, init.ev), LAMBDA l :
                     IF ~l.ok THEN l
                     ELSE Done([l.ev EXCEPT !.env = pop_env(@)])))

visit_function_declaration(fd, ev) ==
    Done([ev EXCEPT !.env = define(@, fd.name.ident, Function(fd.function))])

visit_return(expr, ev) ==
    Let(visit_expression(expr, ev), LAMBDA value :
        IF ~value.ok THEN value
        ELSE Err(Return(value.value), value.ev))

\* `ClassDecl(name, methods)`: define name -> Class(c).
visit_class_declaration(cd, ev) ==
    Done([ev EXCEPT !.env = define(@, cd.name.ident, Class([name |-> cd.name]))])

\* for stmt in &stmts.stmts { self.visit_statement(&stmt)?; }
visit_block_stmts(ss, i, ev) ==
    IF i > Len(ss) THEN Done(ev)
    ELSE Let(visit_statement(ss[i], ev), LAMBDA r :
             IF ~r.ok THEN r
             ELSE visit_block_stmts(ss, i + 1, r.ev))

\* The Block arm of visit_statement: the `?` in the loop leaves before pop_env.
visit_block(block, ev) ==
    Let(visit_block_stmts(block.stmts, 1, [ev EXCEPT !.env = push_env(@)]), LAMBDA r :
        IF ~r.ok THEN r
        ELSE Done([r.ev EXCEPT !.env = pop_env(@)]))

visit_statement(stmt, ev) ==
    CASE stmt.k = "Print" -> visit_print(stmt.expr, ev)
      [] stmt.k = "Expression" ->
             Let(visit_expression(stmt.expr, ev), LAMBDA r :
                 IF r.ok THEN Done(r.ev) ELSE r)
      [] stmt.k = "VariableDeclaration" -> visit_variable_declaration(stmt, ev)
      [] stmt.k = "Block" -> visit_block(stmt, ev)
      [] stmt.k = "Conditional" -> visit_conditional(stmt, ev)
      [] stmt.k = "WhileLoop" -> visit_while_loop(stmt, ev)
      [] stmt.k = "ForLoop" -> visit_for_loop(stmt, ev)
      [] stmt.k = "FunctionDeclaration" -> visit_function_declaration(stmt, ev)
      [] stmt.k = "Return" -> visit_return(stmt.expr, ev)
      [] stmt.k = "ClassDeclaration" -> visit_class_declaration(stmt, ev)

\* Evaluator::new, then register_prelude(prelude()).
EvaluatorNewEnv == define(EnvironmentNew, "clock", NativeFunction("clock", 0))

---------------------------------------------------------------------------
(* Character cursor: src/src/location_tracking_iterator.rs, location.rs.   *)
(* A text, and the underlying iterator over what is left of it, is a       *)
(* sequence of characters.  An operation of the cursor gives what it       *)
(* returns and the cursor afterwards (it).                                 *)

advance(loc, c) ==
    IF c = "\n" THEN Location(loc.line + 1, 0) ELSE Location(loc.line, loc.char + 1)

\* Iterator::next of the underlying iterator: [c |-> Option<char>, it |-> the rest].
chars_next(chars) ==
    IF chars = <<>> THEN [c |-> None, it |-> chars]
    ELSE [c |-> Some(Head(chars)), it |-> Tail(chars)]

LocationTrackingIteratorNew(text) ==
    [location |-> LocationStart, it |-> text, peek_1 |-> None, peek_2 |-> None]

get_location(it) == it.location

\* Iterator::next for the cursor.
it_next(it) ==
    IF it.peek_1 # None
    THEN [c |-> it.peek_1,
          it |-> [it EXCEPT !.peek_1 = it.peek_2, !.peek_2 = None,
                            !.location = advance(@, it.peek_1[1])]]
    ELSE Let(chars_next(it.it), LAMBDA n :
             IF n.c = None THEN [c |-> None, it |-> [it EXCEPT !.it = n.it]]
             ELSE [c |-> n.c,
                   it |-> [it EXCEPT !.it = n.it, !.location = advance(@, n.c[1])]])

\* peek, were the location to move with the lookahead.
it_peek_advancing(it) ==
    Let(IF it.peek_1 = None
        THEN Let(chars_next(it.it), LAMBDA n :
                 [it EXCEPT !.peek_1 = n.c, !.it = n.it,
                            !.location = IF n.c = None THEN @ ELSE advance(@, n.c[1])])
        ELSE it,
        LAMBDA peeked : [c |-> peeked.peek_1, it |-> peeked])

it_peek(it) ==
    Let(IF it.peek_1 = None
        THEN Let(chars_next(it.it), LAMBDA n : [it EXCEPT !.peek_1 = n.c, !.it = n.it])
        ELSE it,
        LAMBDA peeked : [c |-> peeked.peek_1, it |-> peeked])

peek_location(it) ==
    Let(it_peek(it), LAMBDA p :
        IF p.c # None
        THEN [loc |-> Some(advance(p.it.location, p.c[1])), it |-> p.it]
        ELSE [loc |-> None, it |-> p.it])

peek_2(it) ==
    IF it.peek_2 # None THEN [c |-> it.peek_2, it |-> it]
    ELSE Let(it_peek(it), LAMBDA p :
             IF p.c # None
             THEN Let(chars_next(p.it.it), LAMBDA n :
                      [c |-> n.c, it |-> [p.it EXCEPT !.peek_2 = n.c, !.it = n.it]])
             ELSE [c |-> None, it |-> p.it])

peek_location_2(it) ==
    Let(peek_2(it), LAMBDA q :
        IF q.c # None
        THEN Let(peek_location(q.it), LAMBDA l :
                 [loc |-> Some(advance(l.loc[1], q.c[1])), it |-> l.it])
        ELSE [loc |-> None, it |-> q.it])

---------------------------------------------------------------------------
(* Scanner: src/src/scanning/mod.rs, src/src/scanning/token.rs             *)

\* TokenType: a variant without payload, or Identifier / String / Number / Invalid.
TokenType(type) == [type |-> type]
TokenTypeOf(type, val) == [type |-> type, val |-> val]

Token(token, span) == [token |-> token, span |-> span]

UnterminatedString(span) == [error |-> "UnterminatedString", span |-> span]
InvalidCharacter(c, span) == [error |-> "InvalidCharacter", c |-> c, span |-> span]

\* Returns the current span and starts a new one.
consume_span(start, end) == [span |-> CodeSpan(start, end), start |-> end]

Digits == {"0", "1", "2", "3", "4", "5", "6", "7", "8", "9"}

Alphabetic ==
    {"a", "b", "c", "d", "e", "f", "g", "h", "i", "j", "k", "l", "m", "n", "o", "p", "q",
     "r", "s", "t", "u", "v", "w", "x", "y", "z", "A", "B", "C", "D", "E", "F", "G", "H",
     "I", "J", "K", "L", "M", "N", "O", "P", "Q", "R", "S", "T", "U", "V", "W", "X", "Y",
     "Z"}

SimpleOperators ==
    [c \in {"(", ")", "{", "}", ",", ".", "-", "+", ";", "*", "/"} |->
        CASE c = "(" -> "LeftParen" [] c = ")" -> "RightParen" [] c = "{" -> "LeftBrace"
          [] c = "}" -> "RightBrace" [] c = "," -> "Comma" [] c = "." -> "Dot"
          [] c = "-" -> "Minus" [] c = "+" -> "Plus" [] c = ";" -> "Semicolon"
          [] c = "*" -> "Star" [] c = "/" -> "Slash"]

Keywords ==
    [w \in {"and", "class", "else", "false", "for", "fun", "if", "nil", "or", "print",
            "return", "super", "this", "true", "var", "while"} |->
        CASE w = "and" -> "And" [] w = "class" -> "Class" [] w = "else" -> "Else"
          [] w = "false" -> "False" [] w = "for" -> "For" [] w = "fun" -> "Fun"
          [] w = "if" -> "If" [] w = "nil" -> "Nil" [] w = "or" -> "Or"
          [] w = "print" -> "Print" [] w = "return" -> "Return" [] w = "super" -> "Super"
          [] w = "this" -> "This" [] w = "true" -> "True" [] w = "var" -> "Var"
          [] w = "while" -> "While"]

\* The String made of the characters pushed to it.
RECURSIVE collect(_)
collect(chars) == IF chars = <<>> THEN "" ELSE Head(chars) \o collect(Tail(chars))

DigitValue(c) ==
    CASE c = "0" -> 0 [] c = "1" -> 1 [] c = "2" -> 2 [] c = "3" -> 3 [] c = "4" -> 4
      [] c = "5" -> 5 [] c = "6" -> 6 [] c = "7" -> 7 [] c = "8" -> 8 [] c = "9" -> 9

RECURSIVE parse_digits(_, _)
parse_digits(chars, acc) ==
    IF chars = <<>> THEN acc ELSE parse_digits(Tail(chars), 10 * acc + DigitValue(Head(chars)))

RECURSIVE trim_zeros(_)
trim_zeros(chars) ==
    IF chars # <<>> /\ chars[Len(chars)] = "0"
    THEN trim_zeros(SubSeq(chars, 1, Len(chars) - 1)) ELSE chars

\* str.parse::<f64>() on digits, optionally a dot and digits: the integer part and
\* the significant digits of the fraction.
parse_f64(chars) ==
    LET dots == {i \in 1..Len(chars) : chars[i] = "."}
        dot == IF dots = {} THEN Len(chars) + 1 ELSE CHOOSE i \in dots : TRUE
    IN [int |-> parse_digits(SubSeq(chars, 1, dot - 1), 0),
        frac |-> trim_zeros(SubSeq(chars, dot + 1, Len(chars)))]

\* while the next character is one of chars { s.push(source.next()) }
RECURSIVE take_while(_, _, _)
take_while(source, chars, s) ==
    Let(it_peek(source), LAMBDA peek :
        IF peek.c # None /\ peek.c[1] \in chars
        THEN Let(it_next(peek.it), LAMBDA n : take_while(n.it, chars, Append(s, n.c[1])))
        ELSE [s |-> s, source |-> peek.it])

extend_with_digits(source, s) == take_while(source, Digits, s)

next_is_equal(source) ==
    Let(it_peek(source), LAMBDA peek :
        IF peek.c = Some("=")
        THEN [equal |-> TRUE, source |-> it_next(peek.it).it]
        ELSE [equal |-> FALSE, source |-> peek.it])

\* The rest of a line comment: ended by the end of the input, or by a newline.
RECURSIVE line_comment(_)
line_comment(source) ==
    Let(it_next(source), LAMBDA n :
        IF n.c = None THEN [eof |-> TRUE, source |-> n.it]
        ELSE IF n.c = Some("\n") THEN [eof |-> FALSE, source |-> n.it]
        ELSE line_comment(n.it))

\* The rest of a string literal, after the opening quote.
RECURSIVE string_literal(_, _)
string_literal(source, str) ==
    Let(it_peek(source), LAMBDA peek :
        IF peek.c = Some("\"")
        THEN [closed |-> TRUE, str |-> str, source |-> it_next(peek.it).it]
        ELSE Let(it_next(peek.it), LAMBDA n :
                 IF n.c = None THEN [closed |-> FALSE, str |-> str, source |-> n.it]
                 ELSE string_literal(n.it, Append(str, n.c[1]))))

\* One emitted token: its span runs from start to the cursor, start moves there.
emit(token, source, start) ==
    LET c == consume_span(start, get_location(source)) IN
    [token |-> Token(token, c.span), source |-> source, start |-> c.start]

EOF == TokenType("EOF")

\* The arms of the match in scan, for the character char just read; source is
\* the cursor after it.  Gives [again |-> TRUE, source] when the loop continues, and
\* [again |-> FALSE, token, source, start] when a token is returned.
scan_char(char, source, start) ==
    LET emitted(r) == [again |-> FALSE] @@ r
        \* The guard of the first arm peeks when the character is a slash.
        src == IF char = "/" THEN it_peek(source).it ELSE source
    IN
    IF char = "/" /\ it_peek(source).c = Some("/")
    THEN Let(line_comment(src), LAMBDA comment :
             IF comment.eof
             THEN emitted([token |-> Token(EOF, CodeSpan(get_location(comment.source),
                                                         get_location(comment.source))),
                           source |-> comment.source, start |-> start])
             ELSE [again |-> TRUE, source |-> comment.source])
    ELSE IF char \in DOMAIN SimpleOperators
    THEN emitted(emit(TokenType(SimpleOperators[char]), src, start))
    ELSE IF char = "!"
    THEN Let(next_is_equal(src), LAMBDA e :
             emitted(emit(TokenType(IF e.equal THEN "BangEqual" ELSE "Bang"),
                          e.source, start)))
    ELSE IF char = "="
    THEN Let(next_is_equal(src), LAMBDA e :
             emitted(emit(TokenType(IF e.equal THEN "EqualEqual" ELSE "Equal"),
                          e.source, start)))
    ELSE IF char \in {"\t", " ", "\n"}
    THEN [again |-> TRUE, source |-> src]
    ELSE IF char = "\""
    THEN Let(string_literal(src, <<>>), LAMBDA lit :
             IF lit.closed
             THEN emitted(emit(TokenTypeOf("String", collect(lit.str)), lit.source, start))
             ELSE LET c == consume_span(start, get_location(lit.source)) IN
                  emitted([token |-> Token(TokenTypeOf("Invalid",
                                                       UnterminatedString(c.span)),
                                           c.span),
                           source |-> lit.source, start |-> c.start]))
    ELSE IF char \in Digits
    THEN Let(extend_with_digits(src, <<char>>), LAMBDA d :
             Let(Let(it_peek(d.source), LAMBDA peek :
                     IF peek.c = Some(".")
                     THEN extend_with_digits(it_next(peek.it).it, Append(d.s, "."))
                     ELSE [s |-> d.s, source |-> peek.it]),
                 LAMBDA f :
                     emitted(emit(TokenTypeOf("Number", parse_f64(f.s)), f.source,
                                  start))))
    ELSE IF char \in Alphabetic \cup {"_"}
    THEN Let(take_while(src, Alphabetic \cup Digits \cup {"_"}, <<char>>), LAMBDA w :
             LET str == collect(w.s) IN
             emitted(emit(IF str \in DOMAIN Keywords THEN TokenType(Keywords[str])
                          ELSE TokenTypeOf("Identifier", str),
                          w.source, start)))
    ELSE LET span == CodeSpan(Location(start.line, start.char), get_location(src)) IN
         emitted([token |-> Token(TokenTypeOf("Invalid", InvalidCharacter(char, span)),
                                  span),
                  source |-> src, start |-> start])

\* scan (mod.rs): the next token of the source, EOF at its end.  After a comment
\* or whitespace, start is the cursor's location and the loop continues.
\* Gives [token, source, start]: the token, the cursor and the start afterwards.
RECURSIVE scan(_, _)
scan(source, start) ==
    Let(it_next(source), LAMBDA n :
        IF n.c = None THEN emit(EOF, n.it, start)
        ELSE Let(scan_char(n.c[1], n.it, start), LAMBDA r :
                 IF r.again THEN scan(r.source, get_location(r.source))
                 ELSE [token |-> r.token, source |-> r.source, start |-> r.start]))

\* The number literal of the scan the TokenStream calls: digits, then a dot and
\* digits when a digit follows the dot; a dot no digit follows is left unread.
number_literal(source, char) ==
    Let(extend_with_digits(source, <<char>>), LAMBDA d :
        Let(it_peek(d.source), LAMBDA peek :
            Let(peek_2(peek.it), LAMBDA second :
                IF peek.c = Some(".") /\ second.c # None /\ second.c[1] \in Digits
                THEN extend_with_digits(it_next(second.it).it, Append(d.s, "."))
                ELSE [s |-> d.s, source |-> second.it])))

\* The scan the TokenStream calls: "each invocation returns the next token or
\* end-of-stream".  [token |-> Option<Token>, source, start].  It has the arms of
\* scan, and besides: < and > are operators that an = may follow, a number takes
\* a dot only before a digit, start is advanced after an invalid character as
\* after every token, and the end of the input gives no token.
RECURSIVE scan_or_end(_, _)
scan_or_end(source, start) ==
    LET some(r) == [token |-> Some(r.token), source |-> r.source, start |-> r.start] IN
    Let(it_next(source), LAMBDA n :
        IF n.c = None THEN [token |-> None, source |-> n.it, start |-> start]
        ELSE IF n.c[1] = "<"
        THEN Let(next_is_equal(n.it), LAMBDA e :
                 some(emit(TokenType(IF e.equal THEN "LessEqual" ELSE "Less"),
                           e.source, start)))
        ELSE IF n.c[1] = ">"
        THEN Let(next_is_equal(n.it), LAMBDA e :
                 some(emit(TokenType(IF e.equal THEN "GreaterEqual" ELSE "Greater"),
                           e.source, start)))
        ELSE IF n.c[1] \in Digits
        THEN Let(number_literal(n.it, n.c[1]), LAMBDA f :
                 some(emit(TokenTypeOf("Number", parse_f64(f.s)), f.source, start)))
        ELSE Let(scan_char(n.c[1], n.it, start), LAMBDA r :
                 IF r.again THEN scan_or_end(r.source, get_location(r.source))
                 ELSE IF r.token.token = EOF
                 THEN [token |-> None, source |-> r.source, start |-> r.start]
                 ELSE IF r.token.token.type = "Invalid"
                         /\ r.token.token.val.error = "InvalidCharacter"
                 THEN some(emit(r.token.token, r.source, start))
                 ELSE some(r)))

\* scan_all (mod.rs): scans every token of the code, up to and with EOF.  The
\* state of its loop: the code, the cursor, the start location, the tokens pushed
\* so far, and whether the loop has ended.
scan_all_new(code) ==
    [text |-> code, source |-> LocationTrackingIteratorNew(code), loc |-> LocationStart,
     vec |-> <<>>, done |-> FALSE]

\* One iteration of the loop of scan_all.
scan_all_step(s) ==
    Let(scan(s.source, s.loc), LAMBDA r :
        [s EXCEPT !.source = r.source, !.loc = r.start, !.vec = Append(@, r.token),
                  !.done = (r.token.token = EOF)])

---------------------------------------------------------------------------
(* TokenStream: src/src/scanning/token/token_stream.rs                     *)
(* An operation gives [ts, res, panic]: the stream afterwards, what it     *)
(* returns, and whether an assertion or an index check failed.             *)

End == [p |-> "End"]
Index(n) == [p |-> "Index", n |-> n]

TokenStreamNew(text) ==
    [it |-> LocationTrackingIteratorNew(text), loc |-> LocationStart, vec |-> <<>>,
     pos |-> End]

Returned(t, res) == [ts |-> t, res |-> res, panic |-> FALSE]
Panicked(t) == [ts |-> t, res |-> None, panic |-> TRUE]

\* back, were it to stay where it is when no token precedes the position.
back_or_stay(t) ==
    IF t.pos.p = "Index"
    THEN Returned([t EXCEPT !.pos = Index(IF t.pos.n = 0 THEN 0 ELSE t.pos.n - 1)], None)
    ELSE IF Len(t.vec) = 0 THEN Returned(t, None)
         ELSE Returned([t EXCEPT !.pos = Index(Len(t.vec) - 1)], None)

\* Goes back one iteration.
back(t) ==
    IF t.pos.p = "Index"
    THEN IF t.pos.n = 0 THEN Panicked(t)
         ELSE Returned([t EXCEPT !.pos = Index(t.pos.n - 1)], None)
    ELSE IF Len(t.vec) = 0 THEN Panicked(t)
         ELSE Returned([t EXCEPT !.pos = Index(Len(t.vec) - 1)], None)

\* Immediately scans the next token from the source.
parse_next_token(t) ==
    Let(scan_or_end(t.it, t.loc), LAMBDA r :
        LET scanned == [t EXCEPT !.it = r.source, !.loc = r.start] IN
        IF r.token # None
        THEN Returned([scanned EXCEPT !.vec = Append(@, r.token[1])], r.token)
        ELSE Returned(scanned, None))

\* Iterator::next.  vec is indexed from 0 in the program and from 1 here.
next(t) ==
    IF t.pos.p = "Index"
    THEN IF t.pos.n >= Len(t.vec) THEN Panicked(t)
         ELSE Returned([t EXCEPT !.pos = IF Len(t.vec) = t.pos.n + 1 THEN End
                                          ELSE Index(t.pos.n + 1)],
                       Some(t.vec[t.pos.n + 1]))
    ELSE parse_next_token(t)

set_pos(t, pos) ==
    IF pos.p = "Index" /\ ~(pos.n < Len(t.vec)) THEN Panicked(t)
    ELSE Returned([t EXCEPT !.pos = pos], None)

\* peek, were the rewind left out.
peek_without_back(t) == next(t)

peek(t) ==
    Let(next(t), LAMBDA item :
        IF ~item.panic /\ item.res # None
        THEN [back(item.ts) EXCEPT !.res = item.res]
        ELSE item)

TokenStreamState(position) == [position |-> position]

save_position(t) ==
    TokenStreamState(IF t.pos.p = "Index" THEN t.pos.n ELSE Len(t.vec))

\* load_position, were it to go to the end of the scanned tokens.
load_position_to_end(t, save) == Returned([t EXCEPT !.pos = End], None)

load_position(t, save) ==
    IF save.position = Len(t.vec)
    THEN Returned([t EXCEPT !.pos = End], None)
    ELSE Returned([t EXCEPT !.pos = Index(save.position)], None)

current_position(t) ==
    IF t.vec = <<>> THEN LocationStart ELSE t.vec[Len(t.vec)].span.end

has_next(t) == [peek(t) EXCEPT !.res = (@ # None)]

---------------------------------------------------------------------------
(* Parser of expressions: src/src/parsing/expressions.rs                   *)
(* A parsing function takes the token stream and gives                     *)
(* [ok, expr | err, ts]: the Result and the token stream afterwards.       *)

Parsed(expr, t) == [ok |-> TRUE, expr |-> expr, ts |-> t]
Failed(err, t) == [ok |-> FALSE, err |-> err, ts |-> t]

UnexpectedEndOfTokenStream(loc) == [error |-> "UnexpectedEndOfTokenStream", loc |-> loc]
UnexpectedToken(tok) == [error |-> "UnexpectedToken", tok |-> tok]
InvalidAssignmentTarget(span) == [error |-> "InvalidAssignmentTarget", span |-> span]
TooManyArguments(span) == [error |-> "TooManyArguments", span |-> span]

is_of_type(token, type) == token.token = TokenType(type)

\* TryFrom<&Token> for BinaryOperator and for UnaryOperator, on the tokens that
\* give an operator.
BinaryOperatorTryFrom ==
    [type \in {"BangEqual", "EqualEqual", "Greater", "GreaterEqual", "Less", "LessEqual",
               "Plus", "Minus", "Star", "Slash"} |->
        CASE type = "BangEqual" -> "Inequality" [] type = "EqualEqual" -> "Equality"
          [] type = "Greater" -> "StrictSuperiority" [] type = "GreaterEqual" -> "Superiority"
          [] type = "Less" -> "StrictInferiority" [] type = "LessEqual" -> "Inferiority"
          [] type = "Plus" -> "Addition" [] type = "Minus" -> "Subtraction"
          [] type = "Star" -> "Multiplication" [] type = "Slash" -> "Division"]

UnaryOperatorTryFrom ==
    [type \in {"Minus", "Bang"} |-> CASE type = "Minus" -> "Minus" [] type = "Bang" -> "Not"]

\* A call of the parsing function of the given name.
RECURSIVE call(_, _)

\* try_parse!: on an error the token stream is put back where it was.
try_parse(function, t) ==
    LET save == save_position(t) IN
    Let(call(function, t), LAMBDA r :
        IF r.ok THEN r ELSE [r EXCEPT !.ts = load_position(r.ts, save).ts])

\* consume: the next token, which must be of the given type; a token of another
\* type stays in the stream (`var a;` parses: the `;` that is not an `=` is still
\* there for the caller).
consume(t, type) ==
    Let(peek(t), LAMBDA tok :
        IF tok.res = None
        THEN Failed(UnexpectedEndOfTokenStream(current_position(tok.ts)), tok.ts)
        ELSE IF is_of_type(tok.res[1], type)
        THEN [ok |-> TRUE, token |-> tok.res[1], ts |-> next(tok.ts).ts]
        ELSE Failed(UnexpectedToken(tok.res[1]), tok.ts))

RECURSIVE parse_logic_or_while(_, _)
RECURSIVE parse_logic_and_while(_, _)
RECURSIVE parse_equality_while(_, _)
RECURSIVE parse_comparison_while(_, _)
RECURSIVE parse_term_right_while(_, _)
RECURSIVE parse_term_while(_, _)
RECURSIVE parse_factor_while(_, _)
RECURSIVE parse_call_while(_, _)
RECURSIVE parse_arguments_while(_, _)

parse_expression(t) == call("parse_assignment", t)

\* parse_primary; the token after a parenthesised expression must be `)`.
parse_primary(t) ==
    Let(next(t), LAMBDA tok :
        IF tok.res = None
        THEN Failed(UnexpectedEndOfTokenStream(current_position(tok.ts)), tok.ts)
        ELSE LET token == tok.res[1]
                 span == token.span
                 type == token.token.type
             IN CASE type = "Identifier" -> Parsed(Identifier(token.token.val, span), tok.ts)
                  [] type = "False" -> Parsed(Literal(LitFalse, span), tok.ts)
                  [] type = "True" -> Parsed(Literal(LitTrue, span), tok.ts)
                  [] type = "Nil" -> Parsed(Literal(LitNil, span), tok.ts)
                  [] type = "Number" ->
                         Parsed(Literal(NumberLiteral(token.token.val), span), tok.ts)
                  [] type = "String" ->
                         Parsed(Literal(StringLiteral(token.token.val), span), tok.ts)
                  [] type = "LeftParen" ->
                         Let(call("parse_expression", tok.ts), LAMBDA expr :
                             IF ~expr.ok THEN expr
                             ELSE Let(next(expr.ts), LAMBDA close :
                                      IF close.res = None
                                      THEN Failed(UnexpectedEndOfTokenStream(
                                                      current_position(close.ts)),
                                                  close.ts)
                                      ELSE IF is_of_type(close.res[1], "RightParen")
                                      THEN Parsed(expr.expr, close.ts)
                                      ELSE Failed(UnexpectedToken(close.res[1]), close.ts)))
                  [] OTHER -> Failed(UnexpectedToken(Token(token.token, span)), tok.ts))

\* The loop of parse_arguments, after the first argument.
parse_arguments_while(arguments, t) ==
    Let(peek(t), LAMBDA tok :
        IF tok.res = None \/ is_of_type(tok.res[1], "RightParen")
        THEN [ok |-> TRUE, arguments |-> arguments, ts |-> tok.ts]
        ELSE IF is_of_type(tok.res[1], "Comma")
        THEN Let(call("parse_expression", next(tok.ts).ts), LAMBDA argument :
                 IF ~argument.ok THEN argument
                 ELSE parse_arguments_while(Append(arguments, argument.expr), argument.ts))
        ELSE Failed(UnexpectedToken(tok.res[1]), tok.ts))

parse_arguments(t) ==
    Let(peek(t), LAMBDA tok :
        IF tok.res = None
        THEN Failed(UnexpectedEndOfTokenStream(current_position(tok.ts)), tok.ts)
        ELSE IF is_of_type(tok.res[1], "RightParen")
        THEN [ok |-> TRUE, arguments |-> <<>>, ts |-> tok.ts]
        ELSE Let(call("parse_expression", tok.ts), LAMBDA first :
                 IF ~first.ok THEN first
                 ELSE Let(parse_arguments_while(<<first.expr>>, first.ts), LAMBDA all :
                          IF ~all.ok THEN all
                          ELSE IF Len(all.arguments) >= 255
                          THEN Failed(TooManyArguments(
                                          combine(all.arguments[1].location,
                                                  all.arguments[Len(all.arguments)].location)),
                                      all.ts)
                          ELSE all)))

\* The loop of parse_call: one argument list after the other.
parse_call_while(expr, t) ==
    Let(peek(t), LAMBDA tok :
        IF tok.res # None /\ is_of_type(tok.res[1], "LeftParen")
        THEN Let(call("parse_arguments", next(tok.ts).ts), LAMBDA arguments :
                 IF ~arguments.ok THEN arguments
                 ELSE Let(consume(arguments.ts, "RightParen"), LAMBDA paren :
                          IF ~paren.ok THEN paren
                          ELSE parse_call_while(
                                   Call(expr, arguments.arguments,
                                        combine(expr.location, paren.token.span)),
                                   paren.ts)))
        ELSE Parsed(expr, tok.ts))

parse_call(t) ==
    Let(call("parse_primary", t), LAMBDA expr :
        IF ~expr.ok THEN expr ELSE parse_call_while(expr.expr, expr.ts))

\* The location of a unary operation is the span of its operator token.
parse_unary(t) ==
    Let(next(t), LAMBDA tok :
        IF tok.res = None
        THEN Failed(UnexpectedEndOfTokenStream(current_position(tok.ts)), tok.ts)
        ELSE IF is_of_type(tok.res[1], "Bang") \/ is_of_type(tok.res[1], "Minus")
        THEN Let(call("parse_unary", tok.ts), LAMBDA expr :
                 IF ~expr.ok THEN expr
                 ELSE Parsed(Unary(UnaryOperatorTryFrom[tok.res[1].token.type], expr.expr,
                                   tok.res[1].span),
                             expr.ts))
        ELSE call("parse_call", back(tok.ts).ts))

parse_factor_while(expr, t) ==
    Let(peek(t), LAMBDA op :
        IF op.res # None /\ (is_of_type(op.res[1], "Star") \/ is_of_type(op.res[1], "Slash"))
        THEN Let(call("parse_unary", next(op.ts).ts), LAMBDA right :
                 IF ~right.ok THEN right
                 ELSE parse_factor_while(
                          Binary(BinaryOperatorTryFrom[op.res[1].token.type], expr,
                                 right.expr, combine(expr.location, right.expr.location)),
                          right.ts))
        ELSE Parsed(expr, op.ts))

parse_factor(t) ==
    Let(call("parse_unary", t), LAMBDA expr :
        IF ~expr.ok THEN expr ELSE parse_factor_while(expr.expr, expr.ts))

\* The loop of parse_term, were its right operand a whole term.
parse_term_right_while(expr, t) ==
    Let(peek(t), LAMBDA op :
        IF op.res # None /\ (is_of_type(op.res[1], "Plus") \/ is_of_type(op.res[1], "Minus"))
        THEN Let(Let(call("parse_factor", next(op.ts).ts), LAMBDA first :
                     IF ~first.ok THEN first
                     ELSE parse_term_right_while(first.expr, first.ts)),
                 LAMBDA right :
                     IF ~right.ok THEN right
                     ELSE Parsed(Binary(BinaryOperatorTryFrom[op.res[1].token.type], expr,
                                        right.expr,
                                        combine(expr.location, right.expr.location)),
                                 right.ts))
        ELSE Parsed(expr, op.ts))

parse_term_while(expr, t) ==
    Let(peek(t), LAMBDA op :
        IF op.res # None /\ (is_of_type(op.res[1], "Plus") \/ is_of_type(op.res[1], "Minus"))
        THEN Let(call("parse_factor", next(op.ts).ts), LAMBDA right :
                 IF ~right.ok THEN right
                 ELSE parse_term_while(
                          Binary(BinaryOperatorTryFrom[op.res[1].token.type], expr,
                                 right.expr, combine(expr.location, right.expr.location)),
                          right.ts))
        ELSE Parsed(expr, op.ts))

parse_term(t) ==
    Let(call("parse_factor", t), LAMBDA expr :
        IF ~expr.ok THEN expr ELSE parse_term_while(expr.expr, expr.ts))

parse_comparison_while(expr, t) ==
    Let(peek(t), LAMBDA op :
        IF op.res # None /\ (\/ is_of_type(op.res[1], "Greater")
                             \/ is_of_type(op.res[1], "GreaterEqual")
                             \/ is_of_type(op.res[1], "Less")
                             \/ is_of_type(op.res[1], "LessEqual"))
        THEN Let(call("parse_term", next(op.ts).ts), LAMBDA right :
                 IF ~right.ok THEN right
                 ELSE parse_comparison_while(
                          Binary(BinaryOperatorTryFrom[op.res[1].token.type], expr,
                                 right.expr, combine(expr.location, right.expr.location)),
                          right.ts))
        ELSE Parsed(expr, op.ts))

parse_comparison(t) ==
    Let(try_parse("parse_term", t), LAMBDA expr :
        IF ~expr.ok THEN expr ELSE parse_comparison_while(expr.expr, expr.ts))

parse_equality_while(expr, t) ==
    Let(peek(t), LAMBDA op :
        IF op.res # None /\ (\/ is_of_type(op.res[1], "EqualEqual")
                             \/ is_of_type(op.res[1], "BangEqual"))
        THEN Let(call("parse_comparison", next(op.ts).ts), LAMBDA right :
                 IF ~right.ok THEN right
                 ELSE parse_equality_while(
                          Binary(BinaryOperatorTryFrom[op.res[1].token.type], expr,
                                 right.expr, combine(expr.location, right.expr.location)),
                          right.ts))
        ELSE Parsed(expr, op.ts))

parse_equality(t) ==
    Let(try_parse("parse_comparison", t), LAMBDA expr :
        IF ~expr.ok THEN expr ELSE parse_equality_while(expr.expr, expr.ts))

parse_logic_and_while(expr, t) ==
    Let(peek(t), LAMBDA token :
        IF token.res # None /\ is_of_type(token.res[1], "And")
        THEN Let(call("parse_equality", next(token.ts).ts), LAMBDA right :
                 IF ~right.ok THEN right
                 ELSE parse_logic_and_while(
                          Binary("Conjunction", expr, right.expr,
                                 CodeSpan(expr.location.start, right.expr.location.end)),
                          right.ts))
        ELSE Parsed(expr, token.ts))

parse_logic_and(t) ==
    Let(call("parse_equality", t), LAMBDA expr :
        IF ~expr.ok THEN expr ELSE parse_logic_and_while(expr.expr, expr.ts))

parse_logic_or_while(expr, t) ==
    Let(peek(t), LAMBDA token :
        IF token.res # None /\ is_of_type(token.res[1], "Or")
        THEN Let(call("parse_logic_and", next(token.ts).ts), LAMBDA right :
                 IF ~right.ok THEN right
                 ELSE parse_logic_or_while(
                          Binary("Disjunction", expr, right.expr,
                                 CodeSpan(expr.location.start, right.expr.location.end)),
                          right.ts))
        ELSE Parsed(expr, token.ts))

parse_logic_or(t) ==
    Let(call("parse_logic_and", t), LAMBDA expr :
        IF ~expr.ok THEN expr ELSE parse_logic_or_while(expr.expr, expr.ts))

\* parse_assignment, were the target checked before the right-hand side is parsed.
parse_assignment_target_first(t) ==
    Let(call("parse_logic_or", t), LAMBDA expr :
        IF ~expr.ok THEN expr
        ELSE Let(peek(expr.ts), LAMBDA token :
                 IF token.res # None /\ is_of_type(token.res[1], "Equal")
                 THEN IF expr.expr.k # "Identifier"
                      THEN Failed(InvalidAssignmentTarget(expr.expr.location),
                                  next(token.ts).ts)
                      ELSE Let(call("parse_assignment", next(token.ts).ts), LAMBDA init :
                               IF ~init.ok THEN init
                               ELSE Parsed(Assignment(expr.expr, init.expr,
                                                      CodeSpan(expr.expr.location.start,
                                                               init.expr.location.end)),
                                           init.ts))
                 ELSE Parsed(expr.expr, token.ts)))

parse_assignment(t) ==
    Let(call("parse_logic_or", t), LAMBDA expr :
        IF ~expr.ok THEN expr
        ELSE Let(peek(expr.ts), LAMBDA token :
                 IF token.res # None /\ is_of_type(token.res[1], "Equal")
                 THEN Let(call("parse_assignment", next(token.ts).ts), LAMBDA init :
                          IF ~init.ok THEN init
                          ELSE LET span == CodeSpan(expr.expr.location.start,
                                                    init.expr.location.end) IN
                               IF expr.expr.k = "Identifier"
                               THEN Parsed(Assignment(expr.expr, init.expr, span), init.ts)
                               ELSE Failed(InvalidAssignmentTarget(span), init.ts))
                 ELSE Parsed(expr.expr, token.ts)))

call(function, t) ==
    CASE function = "parse_expression" -> parse_expression(t)
      [] function = "parse_assignment" -> parse_assignment(t)
      [] function = "parse_logic_or" -> parse_logic_or(t)
      [] function = "parse_logic_and" -> parse_logic_and(t)
      [] function = "parse_equality" -> parse_equality(t)
      [] function = "parse_comparison" -> parse_comparison(t)
      [] function = "parse_term" -> parse_term(t)
      [] function = "parse_factor" -> parse_factor(t)
      [] function = "parse_unary" -> parse_unary(t)
      [] function = "parse_call" -> parse_call(t)
      [] function = "parse_primary" -> parse_primary(t)
      [] function = "parse_arguments" -> parse_arguments(t)

---------------------------------------------------------------------------
(* Parser of statements and declarations: src/src/parsing/statements.rs    *)
(* and src/src/parsing/declarations.rs.  A parsing function gives          *)
(* [ok, stmt | err, ts]; parse_declarations and parse_parameters cannot    *)
(* fail and give the list and the token stream.                            *)

ParsedStatement(stmt, t) == [ok |-> TRUE, stmt |-> stmt, ts |-> t]

\* A call of the statement or declaration parsing function of the given name.
RECURSIVE call_statement(_, _)

\* The steps of a parsing function that follow one another with `?`:
\* consume(tokens, type)? and function(tokens)?.
Consume(type) == [step |-> "consume", type |-> type]
CallOf(function) == [step |-> "call", function |-> function]

\* `step1?; step2?; ...`: the results of the first n steps, or the first error.
RECURSIVE sequence(_, _, _)
sequence(steps, n, t) ==
    IF n = 0 THEN [ok |-> TRUE, results |-> <<>>, ts |-> t]
    ELSE Let(sequence(steps, n - 1, t), LAMBDA before :
             IF ~before.ok THEN before
             ELSE Let(IF steps[n].step = "consume" THEN consume(before.ts, steps[n].type)
                      ELSE call_statement(steps[n].function, before.ts),
                      LAMBDA r :
                          IF r.ok
                          THEN [ok |-> TRUE, results |-> Append(before.results, r),
                                ts |-> r.ts]
                          ELSE r))

\* All the steps.
in_sequence(steps, t) == sequence(steps, Len(steps), t)

RECURSIVE parse_parameters_while(_, _, _)
RECURSIVE parse_methods_while(_, _)
RECURSIVE parse_declarations_no_restore(_, _, _)
RECURSIVE parse_declarations_while(_, _, _)

\* The Nil literal at the current position, for an absent initializer or value.
NilAtCurrentPosition(t) ==
    Literal(LitNil, CodeSpan(current_position(t), current_position(t)))

\* The initializer of parse_variable_declaration: the expression after `=`, or Nil.
parse_initializer(t) ==
    Let(consume(t, "Equal"), LAMBDA equal :
        IF equal.ok THEN call_statement("parse_expression", equal.ts)
        ELSE Parsed(NilAtCurrentPosition(equal.ts), equal.ts))

\* The name of parse_variable_declaration, of parse_function and of
\* parse_class_declaration: next() must give an identifier.  An error carries the
\* token itself, or a token made anew of its type and span (the same token).
parse_name(t) ==
    Let(next(t), LAMBDA tok :
        IF tok.res = None
        THEN Failed(UnexpectedEndOfTokenStream(current_position(tok.ts)), tok.ts)
        ELSE IF tok.res[1].token.type = "Identifier"
        THEN [ok |-> TRUE, name |-> Identifier(tok.res[1].token.val, tok.res[1].span),
              ts |-> tok.ts]
        ELSE Failed(UnexpectedToken(Token(tok.res[1].token, tok.res[1].span)), tok.ts))

parse_variable_declaration(t) ==
    Let(in_sequence(<<Consume("Var"), CallOf("parse_name"), CallOf("parse_initializer")>>,
                    t),
        LAMBDA r :
            IF r.ok
            THEN ParsedStatement(VariableDeclaration(r.results[2].name, r.results[3].expr),
                                 r.ts)
            ELSE r)

\* The loop of parse_parameters: save is the position after the last parameter.
parse_parameters_while(params, save, t) ==
    Let(next(t), LAMBDA tok :
        IF tok.res # None /\ tok.res[1].token.type = "Identifier"
        THEN Let(peek(tok.ts), LAMBDA comma :
                 IF comma.res # None /\ is_of_type(comma.res[1], "Comma")
                 THEN parse_parameters_while(
                          Append(params, Identifier(tok.res[1].token.val, tok.res[1].span)),
                          save_position(tok.ts), next(comma.ts).ts)
                 ELSE [ok |-> TRUE,
                       params |->
                           Append(params,
                                  Identifier(tok.res[1].token.val, tok.res[1].span)),
                       ts |-> load_position(comma.ts, save_position(tok.ts)).ts])
        ELSE [ok |-> TRUE, params |-> params, ts |-> load_position(tok.ts, save).ts])

parse_parameters(t) == parse_parameters_while(<<>>, save_position(t), t)

parse_function(t) ==
    Let(in_sequence(<<CallOf("parse_name"), Consume("LeftParen"), CallOf("parse_parameters"),
                   Consume("RightParen"), Consume("LeftBrace"),
                   CallOf("parse_declarations"), Consume("RightBrace")>>,
                    t),
        LAMBDA r :
            IF r.ok
            THEN ParsedStatement(
                     FunctionDeclaration(r.results[1].name, r.results[3].params,
                                         r.results[6].stmts, r.results[1].name.location),
                     r.ts)
            ELSE r)

parse_function_declaration(t) ==
    Let(in_sequence(<<Consume("Fun"), CallOf("parse_function")>>,
                    t),
        LAMBDA r : IF r.ok THEN ParsedStatement(r.results[2].stmt, r.ts) ELSE r)

\* The loop of parse_class_declaration: a method for each identifier that follows.
parse_methods_while(methods, t) ==
    Let(peek(t), LAMBDA tok :
        IF tok.res # None /\ tok.res[1].token.type = "Identifier"
        THEN Let(call_statement("parse_function", tok.ts), LAMBDA method :
                 IF method.ok
                 THEN parse_methods_while(Append(methods, method.stmt), method.ts)
                 ELSE method)
        ELSE [ok |-> TRUE, methods |-> methods, ts |-> tok.ts])

parse_methods(t) == parse_methods_while(<<>>, t)

parse_class_declaration(t) ==
    Let(in_sequence(<<Consume("Class"), CallOf("parse_name"), Consume("LeftBrace"),
                   CallOf("parse_methods"), Consume("RightBrace")>>,
                    t),
        LAMBDA r :
            IF r.ok
            THEN ParsedStatement([k |-> "ClassDeclaration", name |-> r.results[2].name,
                                  methods |-> r.results[4].methods],
                                 r.ts)
            ELSE r)

\* var_dec?; consume(Semicolon)?
parse_variable_statement(t) ==
    Let(in_sequence(<<CallOf("parse_variable_declaration"), Consume("Semicolon")>>,
                    t),
        LAMBDA r : IF r.ok THEN ParsedStatement(r.results[1].stmt, r.ts) ELSE r)

parse_declaration(t) ==
    Let(peek(t), LAMBDA tok :
        IF tok.res = None
        THEN Failed(UnexpectedEndOfTokenStream(current_position(tok.ts)), tok.ts)
        ELSE call_statement(
                 CASE tok.res[1].token.type = "Var" -> "parse_variable_statement"
                   [] tok.res[1].token.type = "Fun" -> "parse_function_declaration"
                   [] tok.res[1].token.type = "Class" -> "parse_class_declaration"
                   [] OTHER -> "parse_statement",
                 tok.ts))

\* parse_declarations, were the token stream left where the failed declaration
\* stopped.
parse_declarations_no_restore(stmts_, save, t) ==
    Let(call_statement("parse_declaration", t), LAMBDA stmt :
        IF stmt.ok
        THEN parse_declarations_no_restore(Append(stmts_, stmt.stmt),
                                           save_position(stmt.ts), stmt.ts)
        ELSE [ok |-> TRUE, stmts |-> stmts_, ts |-> stmt.ts])

\* The loop of parse_declarations and the load_position after it: the error of
\* the declaration that fails is dropped.
parse_declarations_while(stmts_, save, t) ==
    Let(call_statement("parse_declaration", t), LAMBDA stmt :
        IF stmt.ok
        THEN parse_declarations_while(Append(stmts_, stmt.stmt),
                                      save_position(stmt.ts), stmt.ts)
        ELSE [ok |-> TRUE, stmts |-> stmts_, ts |-> load_position(stmt.ts, save).ts])

parse_declarations(t) == parse_declarations_while(<<>>, save_position(t), t)

\* A keyword statement starts with peek() (next() in parse_print), which must give
\* its keyword; parse_statement has made sure of it.
expect_keyword(t, type) ==
    Let(peek(t), LAMBDA tok :
        IF tok.res = None
        THEN Failed(UnexpectedEndOfTokenStream(current_position(tok.ts)), tok.ts)
        ELSE IF tok.res[1].token.type = type
        THEN [ok |-> TRUE, ts |-> next(tok.ts).ts]
        ELSE Failed(UnexpectedToken(tok.res[1]), tok.ts))

parse_print(t) ==
    Let(in_sequence(<<CallOf("expect_print"), CallOf("parse_expression"),
                   Consume("Semicolon")>>,
                    t),
        LAMBDA r : IF r.ok THEN ParsedStatement(PrintStatement(r.results[2].expr), r.ts)
                   ELSE r)

\* The token after the declarations of a block: next() must give a right brace.
parse_right_brace(t) ==
    Let(next(t), LAMBDA rbrace :
        IF rbrace.res = None
        THEN Failed(UnexpectedEndOfTokenStream(current_position(rbrace.ts)), rbrace.ts)
        ELSE IF is_of_type(rbrace.res[1], "RightBrace")
        THEN [ok |-> TRUE, ts |-> rbrace.ts]
        ELSE Failed(UnexpectedToken(rbrace.res[1]), rbrace.ts))

\* The block of parse_statement, after the peek that found the left brace.
parse_block(t) ==
    Let(in_sequence(<<CallOf("parse_declarations"), CallOf("parse_right_brace")>>,
                    next(t).ts),
        LAMBDA r : IF r.ok THEN ParsedStatement(Block(r.results[1].stmts), r.ts) ELSE r)

\* The else branch of parse_conditional, when there is one.
parse_else(t) ==
    Let(peek(t), LAMBDA else :
        IF else.res # None /\ is_of_type(else.res[1], "Else")
        THEN Let(call_statement("parse_statement", next(else.ts).ts), LAMBDA stmt :
                 IF stmt.ok THEN [ok |-> TRUE, part |-> Some(stmt.stmt), ts |-> stmt.ts]
                 ELSE stmt)
        ELSE [ok |-> TRUE, part |-> None, ts |-> else.ts])

parse_conditional(t) ==
    Let(in_sequence(<<CallOf("expect_if"), Consume("LeftParen"), CallOf("parse_expression"),
                   Consume("RightParen"), CallOf("parse_statement"), CallOf("parse_else")>>,
                    t),
        LAMBDA r :
            IF r.ok
            THEN ParsedStatement(Conditional(r.results[3].expr, r.results[5].stmt,
                                             r.results[6].part),
                                 r.ts)
            ELSE r)

parse_while_loop(t) ==
    Let(in_sequence(<<CallOf("expect_while"), Consume("LeftParen"),
                   CallOf("parse_expression"), Consume("RightParen"),
                   CallOf("parse_statement")>>,
                    t),
        LAMBDA r :
            IF r.ok
            THEN ParsedStatement(WhileLoop(r.results[3].expr, r.results[5].stmt), r.ts)
            ELSE r)

\* The initializer of parse_for: nothing, a variable declaration or an expression.
parse_for_initializer(t) ==
    Let(peek(t), LAMBDA tok :
        IF tok.res # None /\ is_of_type(tok.res[1], "Semicolon")
        THEN [ok |-> TRUE, part |-> None, ts |-> tok.ts]
        ELSE Let(call_statement(IF tok.res # None /\ is_of_type(tok.res[1], "Var")
                                THEN "parse_variable_declaration"
                                ELSE "parse_expression",
                                tok.ts),
                 LAMBDA r :
                     IF ~r.ok THEN r
                     ELSE [ok |-> TRUE,
                           part |-> IF "stmt" \in DOMAIN r THEN Some(r.stmt)
                                    ELSE Some(ExpressionStatement(r.expr)),
                           ts |-> r.ts]))

\* The condition and the increment of parse_for: nothing when the token of the
\* given type follows, an expression otherwise.
parse_for_expression(t, type) ==
    Let(peek(t), LAMBDA tok :
        IF tok.res # None /\ is_of_type(tok.res[1], type)
        THEN [ok |-> TRUE, part |-> None, ts |-> tok.ts]
        ELSE Let(call_statement("parse_expression", tok.ts), LAMBDA expr :
                 IF expr.ok THEN [ok |-> TRUE, part |-> Some(expr.expr), ts |-> expr.ts]
                 ELSE expr))

parse_for(t) ==
    Let(in_sequence(<<CallOf("expect_for"), Consume("LeftParen"),
                   CallOf("parse_for_initializer"), Consume("Semicolon"),
                   CallOf("parse_for_condition"), Consume("Semicolon"),
                   CallOf("parse_for_increment"), Consume("RightParen"),
                   CallOf("parse_statement")>>,
                    t),
        LAMBDA r :
            IF r.ok
            THEN ParsedStatement(ForLoop(r.results[3].part, r.results[5].part,
                                         r.results[7].part, r.results[9].stmt),
                                 r.ts)
            ELSE r)

\* The value of parse_return: Nil when a semicolon or nothing follows.
parse_return_value(t) ==
    Let(peek(t), LAMBDA tok :
        IF tok.res = None \/ is_of_type(tok.res[1], "Semicolon")
        THEN Parsed(NilAtCurrentPosition(tok.ts), tok.ts)
        ELSE call_statement("parse_expression", tok.ts))

parse_return(t) ==
    Let(in_sequence(<<Consume("Return"), CallOf("parse_return_value"), Consume("Semicolon")>>,
                    t),
        LAMBDA r : IF r.ok THEN ParsedStatement(ReturnStatement(r.results[2].expr), r.ts)
                   ELSE r)

\* The last arm of parse_statement: an expression and a semicolon.
parse_expression_statement(t) ==
    Let(in_sequence(<<CallOf("parse_expression"), Consume("Semicolon")>>,
                    t),
        LAMBDA r :
            IF r.ok THEN ParsedStatement(ExpressionStatement(r.results[1].expr), r.ts)
            ELSE r)

parse_statement(t) ==
    Let(peek(t), LAMBDA tok :
        IF tok.res = None
        THEN Failed(UnexpectedEndOfTokenStream(current_position(tok.ts)), tok.ts)
        ELSE call_statement(
                 CASE tok.res[1].token.type = "Print" -> "parse_print"
                   [] tok.res[1].token.type = "LeftBrace" -> "parse_block"
                   [] tok.res[1].token.type = "If" -> "parse_conditional"
                   [] tok.res[1].token.type = "While" -> "parse_while_loop"
                   [] tok.res[1].token.type = "For" -> "parse_for"
                   [] tok.res[1].token.type = "Return" -> "parse_return"
                   [] OTHER -> "parse_expression_statement",
                 tok.ts))

call_statement(function, t) ==
    CASE function = "parse_expression" -> call("parse_expression", t)
      [] function = "parse_declarations" -> parse_declarations(t)
      [] function = "parse_declaration" -> parse_declaration(t)
      [] function = "parse_variable_statement" -> parse_variable_statement(t)
      [] function = "parse_variable_declaration" -> parse_variable_declaration(t)
      [] function = "parse_initializer" -> parse_initializer(t)
      [] function = "parse_name" -> parse_name(t)
      [] function = "parse_function_declaration" -> parse_function_declaration(t)
      [] function = "parse_function" -> parse_function(t)
      [] function = "parse_parameters" -> parse_parameters(t)
      [] function = "parse_class_declaration" -> parse_class_declaration(t)
      [] function = "parse_methods" -> parse_methods(t)
      [] function = "parse_statement" -> parse_statement(t)
      [] function = "parse_print" -> parse_print(t)
      [] function = "parse_block" -> parse_block(t)
      [] function = "parse_right_brace" -> parse_right_brace(t)
      [] function = "parse_conditional" -> parse_conditional(t)
      [] function = "parse_else" -> parse_else(t)
      [] function = "parse_while_loop" -> parse_while_loop(t)
      [] function = "parse_for" -> parse_for(t)
      [] function = "parse_for_initializer" -> parse_for_initializer(t)
      [] function = "parse_for_condition" -> parse_for_expression(t, "Semicolon")
      [] function = "parse_for_increment" -> parse_for_expression(t, "RightParen")
      [] function = "parse_return" -> parse_return(t)
      [] function = "parse_return_value" -> parse_return_value(t)
      [] function = "parse_expression_statement" -> parse_expression_statement(t)
      [] function = "expect_print" -> expect_keyword(t, "Print")
      [] function = "expect_if" -> expect_keyword(t, "If")
      [] function = "expect_while" -> expect_keyword(t, "While")
      [] function = "expect_for" -> expect_keyword(t, "For")

---------------------------------------------------------------------------
(* The canonical text of an expression: Priority and Display in            *)
(* src/src/ast/expressions.rs.  A text is a sequence of characters.        *)

BinaryOperatorPriority ==
    [operator \in {"Equality", "Inequality", "Conjunction", "Disjunction",
                   "StrictInferiority", "Inferiority", "StrictSuperiority", "Superiority",
                   "Addition", "Subtraction", "Multiplication", "Division"} |->
        CASE operator \in {"Equality", "Inequality"} -> 1
          [] operator \in {"Conjunction", "Disjunction"} -> 2
          [] operator \in {"StrictInferiority", "Inferiority", "StrictSuperiority",
                           "Superiority"} -> 3
          [] operator \in {"Addition", "Subtraction"} -> 4
          [] operator \in {"Multiplication", "Division"} -> 5]

priority(expr) ==
    CASE expr.k = "Literal" -> 7
      [] expr.k = "Unary" -> 6
      [] expr.k = "Binary" -> BinaryOperatorPriority[expr.operator]
      [] expr.k = "Identifier" -> 7
      [] expr.k = "Assignment" -> 0

UnaryOperatorDisplay == [op \in {"Minus", "Not"} |-> IF op = "Minus" THEN <<"-">> ELSE <<"!">>]

BinaryOperatorDisplay ==
    [operator \in DOMAIN BinaryOperatorPriority |->
        CASE operator = "Addition" -> <<"+">> [] operator = "Division" -> <<"/">>
          [] operator = "Equality" -> <<"=", "=">> [] operator = "Inequality" -> <<"!", "=">>
          [] operator = "StrictInferiority" -> <<"<">>
          [] operator = "StrictSuperiority" -> <<">">>
          [] operator = "Superiority" -> <<">", "=">>
          [] operator = "Inferiority" -> <<"<", "=">>
          [] operator = "Subtraction" -> <<"-">> [] operator = "Multiplication" -> <<"*">>
          [] operator = "Conjunction" -> <<"a", "n", "d">>
          [] operator = "Disjunction" -> <<"o", "r">>]

\* The decimal digits of a natural number.
RECURSIVE digits(_)
digits(n) ==
    LET last == CHOOSE c \in Digits : DigitValue(c) = n % 10 IN
    IF n < 10 THEN <<last>> ELSE Append(digits(n \div 10), last)

\* format!("{}", f) of the f64 a number token holds.
NumberDisplay(n) == IF n.frac = <<>> THEN digits(n.int) ELSE digits(n.int) \o <<".">> \o n.frac

\* The characters of a String: the words of one letter are enough for the names
\* and the strings of the texts parsed here.
StringChars(s) == CHOOSE w \in {<<>>} \cup {<<c>> : c \in Alphabetic} : collect(w) = s

LiteralDisplay(value) ==
    CASE value.lit = "StringLiteral" -> <<"\"">> \o StringChars(value.val) \o <<"\"">>
      [] value.lit = "NumberLiteral" -> NumberDisplay(value.val)
      [] value.lit = "Nil" -> <<"n", "i", "l">>
      [] value.lit = "True" -> <<"t", "r", "u", "e">>
      [] value.lit = "False" -> <<"f", "a", "l", "s", "e">>

\* Display for Expression; a Call has no rendering.
RECURSIVE to_string(_)
to_string(expr) ==
    LET parenthesised(e) == <<"(">> \o to_string(e) \o <<")">> IN
    CASE expr.k = "Literal" -> LiteralDisplay(expr.value)
      [] expr.k = "Identifier" -> StringChars(expr.ident)
      [] expr.k = "Unary" ->
             UnaryOperatorDisplay[expr.op]
                 \o (IF priority(expr) > priority(expr.expr) THEN parenthesised(expr.expr)
                     ELSE to_string(expr.expr))
      [] expr.k = "Binary" ->
             (IF priority(expr) > priority(expr.left) THEN parenthesised(expr.left)
              ELSE to_string(expr.left))
                 \o <<" ">> \o BinaryOperatorDisplay[expr.operator] \o <<" ">>
                 \o (IF priority(expr) >= priority(expr.right) THEN parenthesised(expr.right)
                     ELSE to_string(expr.right))
      [] expr.k = "Assignment" ->
             StringChars(expr.ident.ident) \o <<" ", "=", " ">> \o to_string(expr.expr)

---------------------------------------------------------------------------
(* Programs: the trees the parser (src/src/parsing) gives for the source   *)
(* text in the comment above each, with the spans the parser gives every   *)
(* node.                                                                   *)

\* print "Hello World !"; print 42; print true; print 1 + (2 * 3);
Scenario1 ==
    <<
       PrintStatement(Literal(StringLiteral("Hello World !"), Span(6, 21))),
       PrintStatement(Literal(NumberLiteral(42), Span(29, 31))),
       PrintStatement(Literal(LitTrue, Span(39, 43))),
       PrintStatement(Binary("Addition", Literal(NumberLiteral(1), Span(51, 52)),
       Binary("Multiplication", Literal(NumberLiteral(2), Span(56, 57)),
       Literal(NumberLiteral(3), Span(60, 61)), Span(56, 61)), Span(51, 61)))
    >>

\* var i = 0; while (i < 3) i = i + 1; print i;
Scenario3 ==
    <<
       VariableDeclaration(Identifier("i", Span(4, 5)), Literal(NumberLiteral(0),
       Span(8, 9))),
       WhileLoop(Binary("StrictInferiority", Identifier("i", Span(18, 19)),
       Literal(NumberLiteral(3), Span(22, 23)), Span(18, 23)),
       ExpressionStatement(Assignment(Identifier("i", Span(25, 26)), Binary("Addition",
       Identifier("i", Span(29, 30)), Literal(NumberLiteral(1), Span(33, 34)), Span(29,
       34)), Span(25, 34)))),
       PrintStatement(Identifier("i", Span(42, 43)))
    >>

\* for (var i = 0; i < 3; i = i + 1) print i;
Scenario4 ==
    <<
       ForLoop(Some(VariableDeclaration(Identifier("i", Span(9, 10)),
       Literal(NumberLiteral(0), Span(13, 14)))), Some(Binary("StrictInferiority",
       Identifier("i", Span(16, 17)), Literal(NumberLiteral(3), Span(20, 21)), Span(16,
       21))), Some(Assignment(Identifier("i", Span(23, 24)), Binary("Addition",
       Identifier("i", Span(27, 28)), Literal(NumberLiteral(1), Span(31, 32)), Span(27,
       32)), Span(23, 32))), PrintStatement(Identifier("i", Span(40, 41))))
    >>

\* fun f(a) { return a + 1; } print f(41);
Scenario5 ==
    <<
       FunctionDeclaration(Identifier("f", Span(4, 5)), <<Identifier("a", Span(6, 7))>>,
       <<ReturnStatement(Binary("Addition", Identifier("a", Span(18, 19)),
       Literal(NumberLiteral(1), Span(22, 23)), Span(18, 23)))>>, Span(4, 5)),
       PrintStatement(Call(Identifier("f", Span(33, 34)), <<Literal(NumberLiteral(41),
       Span(35, 37))>>, Span(33, 38)))
    >>

\* var a = 0; var temp; for (var b = 1; a < 20; b = temp + b) { print a; temp = a; a = b; }
Scenario6 ==
    <<
       VariableDeclaration(Identifier("a", Span(4, 5)), Literal(NumberLiteral(0),
       Span(8, 9))),
       VariableDeclaration(Identifier("temp", Span(15, 19)), Literal(LitNil, Span(20,
       20))),
       ForLoop(Some(VariableDeclaration(Identifier("b", Span(30, 31)),
       Literal(NumberLiteral(1), Span(34, 35)))), Some(Binary("StrictInferiority",
       Identifier("a", Span(37, 38)), Literal(NumberLiteral(20), Span(41, 43)), Span(37,
       43))), Some(Assignment(Identifier("b", Span(45, 46)), Binary("Addition",
       Identifier("temp", Span(49, 53)), Identifier("b", Span(56, 57)), Span(49, 57)),
       Span(45, 57))), Block(<<PrintStatement(Identifier("a", Span(67, 68))),
       ExpressionStatement(Assignment(Identifier("temp", Span(70, 74)), Identifier("a",
       Span(77, 78)), Span(70, 78))), ExpressionStatement(Assignment(Identifier("a",
       Span(80, 81)), Identifier("b", Span(84, 85)), Span(80, 85)))>>))
    >>

\* var a = 1; { var a = 2; print a; } print a;  (on line 3)
ShadowFragment ==
    <<
       VariableDeclaration(Identifier("a", SpanOn(3, 4, 5)), Literal(NumberLiteral(1),
       SpanOn(3, 8, 9))),
       Block(<<VariableDeclaration(Identifier("a", SpanOn(3, 17, 18)),
       Literal(NumberLiteral(2), SpanOn(3, 21, 22))), PrintStatement(Identifier("a",
       SpanOn(3, 30, 31)))>>),
       PrintStatement(Identifier("a", SpanOn(3, 41, 42)))
    >>

\* { print nope; } print 1;
ErrorInBlock ==
    <<
       Block(<<PrintStatement(Identifier("nope", Span(8, 12)))>>),
       PrintStatement(Literal(NumberLiteral(1), Span(22, 23)))
    >>

\* fun f() { { return 1; } } print f();
ReturnInBlock ==
    <<
       FunctionDeclaration(Identifier("f", Span(4, 5)), <<>>,
       <<Block(<<ReturnStatement(Literal(NumberLiteral(1), Span(19, 20)))>>)>>, Span(4,
       5)),
       PrintStatement(Call(Identifier("f", Span(32, 33)), <<>>, Span(32, 35)))
    >>

\* fun g() { for (;;) { return 2; } } print g();
ReturnInFor ==
    <<
       FunctionDeclaration(Identifier("g", Span(4, 5)), <<>>, <<ForLoop(None, None,
       None, Block(<<ReturnStatement(Literal(NumberLiteral(2), Span(28, 29)))>>))>>,
       Span(4, 5)),
       PrintStatement(Call(Identifier("g", Span(41, 42)), <<>>, Span(41, 44)))
    >>

\* fun h() { print nope; } h(); print 3;
ErrorInFunction ==
    <<
       FunctionDeclaration(Identifier("h", Span(4, 5)), <<>>,
       <<PrintStatement(Identifier("nope", Span(16, 20)))>>, Span(4, 5)),
       ExpressionStatement(Call(Identifier("h", Span(24, 25)), <<>>, Span(24, 27))),
       PrintStatement(Literal(NumberLiteral(3), Span(35, 36)))
    >>

\* for (var i = 0; i < nope; i = i + 1) print i;
ErrorInFor ==
    <<
       ForLoop(Some(VariableDeclaration(Identifier("i", Span(9, 10)),
       Literal(NumberLiteral(0), Span(13, 14)))), Some(Binary("StrictInferiority",
       Identifier("i", Span(16, 17)), Identifier("nope", Span(20, 24)), Span(16, 24))),
       Some(Assignment(Identifier("i", Span(26, 27)), Binary("Addition", Identifier("i",
       Span(30, 31)), Literal(NumberLiteral(1), Span(34, 35)), Span(30, 35)), Span(26,
       35))), PrintStatement(Identifier("i", Span(43, 44))))
    >>

\* fun f(x) { }
CallPrefix ==
    <<
       FunctionDeclaration(Identifier("f", Span(4, 5)), <<Identifier("x", Span(6, 7))>>,
       <<>>, Span(4, 5))
    >>

\* var x = 1; f(5); print x;  (on line 3)
KeepFragment ==
    <<
       VariableDeclaration(Identifier("x", SpanOn(3, 4, 5)), Literal(NumberLiteral(1),
       SpanOn(3, 8, 9))),
       ExpressionStatement(Call(Identifier("f", SpanOn(3, 11, 12)),
       <<Literal(NumberLiteral(5), SpanOn(3, 13, 14))>>, SpanOn(3, 11, 15))),
       PrintStatement(Identifier("x", SpanOn(3, 23, 24)))
    >>

\* f(5); print x;  (on line 3)
LeakFragment ==
    <<
       ExpressionStatement(Call(Identifier("f", SpanOn(3, 0, 1)),
       <<Literal(NumberLiteral(5), SpanOn(3, 2, 3))>>, SpanOn(3, 0, 4))),
       PrintStatement(Identifier("x", SpanOn(3, 12, 13)))
    >>

\* fun g(a) { return a; } fun f(a) { g(2); return a; } print f(1);
NestedCall ==
    <<
       FunctionDeclaration(Identifier("g", Span(4, 5)), <<Identifier("a", Span(6, 7))>>,
       <<ReturnStatement(Identifier("a", Span(18, 19)))>>, Span(4, 5)),
       FunctionDeclaration(Identifier("f", Span(27, 28)), <<Identifier("a", Span(29,
       30))>>, <<ExpressionStatement(Call(Identifier("g", Span(34, 35)),
       <<Literal(NumberLiteral(2), Span(36, 37))>>, Span(34, 38))),
       ReturnStatement(Identifier("a", Span(47, 48)))>>, Span(27, 28)),
       PrintStatement(Call(Identifier("f", Span(58, 59)), <<Literal(NumberLiteral(1),
       Span(60, 61))>>, Span(58, 62)))
    >>

\* fun r(n) { if (n > 0) r(n - 1); return n; } print r(1);
RecursiveCall ==
    <<
       FunctionDeclaration(Identifier("r", Span(4, 5)), <<Identifier("n", Span(6, 7))>>,
       <<Conditional(Binary("StrictSuperiority", Identifier("n", Span(15, 16)),
       Literal(NumberLiteral(0), Span(19, 20)), Span(15, 20)),
       ExpressionStatement(Call(Identifier("r", Span(22, 23)), <<Binary("Subtraction",
       Identifier("n", Span(24, 25)), Literal(NumberLiteral(1), Span(28, 29)), Span(24,
       29))>>, Span(22, 30))), None), ReturnStatement(Identifier("n", Span(39, 40)))>>,
       Span(4, 5)),
       PrintStatement(Call(Identifier("r", Span(50, 51)), <<Literal(NumberLiteral(1),
       Span(52, 53))>>, Span(50, 54)))
    >>

\* return a + 1; print "dead";  (on line 3)
ReturnInner ==
    <<
       ReturnStatement(Binary("Addition", Identifier("a", SpanOn(3, 7, 8)),
       Literal(NumberLiteral(1), SpanOn(3, 11, 12)), SpanOn(3, 7, 12))),
       PrintStatement(Literal(StringLiteral("dead"), SpanOn(3, 20, 26)))
    >>

\* print "dead";  (on line 5)
ReturnTail ==
    <<
       PrintStatement(Literal(StringLiteral("dead"), SpanOn(5, 6, 12)))
    >>

\* print f(41);  (on line 6)
ReturnCall ==
    <<
       PrintStatement(Call(Identifier("f", SpanOn(6, 6, 7)),
       <<Literal(NumberLiteral(41), SpanOn(6, 8, 10))>>, SpanOn(6, 6, 11)))
    >>

\* fun g(a) { while (true) { if (a > 0) { return a; } print "dead"; } print "dead"; } print g(7);
ReturnInLoop ==
    <<
       FunctionDeclaration(Identifier("g", Span(4, 5)), <<Identifier("a", Span(6, 7))>>,
       <<WhileLoop(Literal(LitTrue, Span(18, 22)),
       Block(<<Conditional(Binary("StrictSuperiority", Identifier("a", Span(30, 31)),
       Literal(NumberLiteral(0), Span(34, 35)), Span(30, 35)),
       Block(<<ReturnStatement(Identifier("a", Span(46, 47)))>>), None),
       PrintStatement(Literal(StringLiteral("dead"), Span(57, 63)))>>)),
       PrintStatement(Literal(StringLiteral("dead"), Span(73, 79)))>>, Span(4, 5)),
       PrintStatement(Call(Identifier("g", Span(89, 90)), <<Literal(NumberLiteral(7),
       Span(91, 92))>>, Span(89, 93)))
    >>

\* fun h() { print "h"; } print h();
NoReturn ==
    <<
       FunctionDeclaration(Identifier("h", Span(4, 5)), <<>>,
       <<PrintStatement(Literal(StringLiteral("h"), Span(16, 19)))>>, Span(4, 5)),
       PrintStatement(Call(Identifier("h", Span(29, 30)), <<>>, Span(29, 32)))
    >>

\* fun inner() { return 1; } fun outer() { print inner(); print "after"; return 2; } print outer();
NearestCall ==
    <<
       FunctionDeclaration(Identifier("inner", Span(4, 9)), <<>>,
       <<ReturnStatement(Literal(NumberLiteral(1), Span(21, 22)))>>, Span(4, 9)),
       FunctionDeclaration(Identifier("outer", Span(30, 35)), <<>>,
       <<PrintStatement(Call(Identifier("inner", Span(46, 51)), <<>>, Span(46, 53))),
       PrintStatement(Literal(StringLiteral("after"), Span(61, 68))),
       ReturnStatement(Literal(NumberLiteral(2), Span(77, 78)))>>, Span(30, 35)),
       PrintStatement(Call(Identifier("outer", Span(88, 93)), <<>>, Span(88, 95)))
    >>

\* fun n() { return; print "dead"; } print n();
ReturnNil ==
    <<
       FunctionDeclaration(Identifier("n", Span(4, 5)), <<>>,
       <<ReturnStatement(Literal(LitNil, Span(17, 17))),
       PrintStatement(Literal(StringLiteral("dead"), Span(24, 30)))>>, Span(4, 5)),
       PrintStatement(Call(Identifier("n", Span(40, 41)), <<>>, Span(40, 43)))
    >>

\* var a = 1; var b = 3; true and (a = 2); false and (b = 4); print a * 10 + b;
ConjunctionShortCircuit ==
    <<
       VariableDeclaration(Identifier("a", Span(4, 5)), Literal(NumberLiteral(1),
       Span(8, 9))),
       VariableDeclaration(Identifier("b", Span(15, 16)), Literal(NumberLiteral(3),
       Span(19, 20))),
       ExpressionStatement(Binary("Conjunction", Literal(LitTrue, Span(22, 26)),
       Assignment(Identifier("a", Span(32, 33)), Literal(NumberLiteral(2), Span(36,
       37)), Span(32, 37)), Span(22, 37))),
       ExpressionStatement(Binary("Conjunction", Literal(LitFalse, Span(40, 45)),
       Assignment(Identifier("b", Span(51, 52)), Literal(NumberLiteral(4), Span(55,
       56)), Span(51, 56)), Span(40, 56))),
       PrintStatement(Binary("Addition", Binary("Multiplication", Identifier("a",
       Span(65, 66)), Literal(NumberLiteral(10), Span(69, 71)), Span(65, 71)),
       Identifier("b", Span(74, 75)), Span(65, 75)))
    >>

\* var a = 1; var b = 3; true or (a = 2); false or (b = 4); print a * 10 + b;
DisjunctionShortCircuit ==
    <<
       VariableDeclaration(Identifier("a", Span(4, 5)), Literal(NumberLiteral(1),
       Span(8, 9))),
       VariableDeclaration(Identifier("b", Span(15, 16)), Literal(NumberLiteral(3),
       Span(19, 20))),
       ExpressionStatement(Binary("Disjunction", Literal(LitTrue, Span(22, 26)),
       Assignment(Identifier("a", Span(31, 32)), Literal(NumberLiteral(2), Span(35,
       36)), Span(31, 36)), Span(22, 36))),
       ExpressionStatement(Binary("Disjunction", Literal(LitFalse, Span(39, 44)),
       Assignment(Identifier("b", Span(49, 50)), Literal(NumberLiteral(4), Span(53,
       54)), Span(49, 54)), Span(39, 54))),
       PrintStatement(Binary("Addition", Binary("Multiplication", Identifier("a",
       Span(63, 64)), Literal(NumberLiteral(10), Span(67, 69)), Span(63, 69)),
       Identifier("b", Span(72, 73)), Span(63, 73)))
    >>

\* print nil and 1; print 2 and 3; print false and 1; print "s" and nil;
ConjunctionValues ==
    <<
       PrintStatement(Binary("Conjunction", Literal(LitNil, Span(6, 9)),
       Literal(NumberLiteral(1), Span(14, 15)), Span(6, 15))),
       PrintStatement(Binary("Conjunction", Literal(NumberLiteral(2), Span(23, 24)),
       Literal(NumberLiteral(3), Span(29, 30)), Span(23, 30))),
       PrintStatement(Binary("Conjunction", Literal(LitFalse, Span(38, 43)),
       Literal(NumberLiteral(1), Span(48, 49)), Span(38, 49))),
       PrintStatement(Binary("Conjunction", Literal(StringLiteral("s"), Span(57, 60)),
       Literal(LitNil, Span(65, 68)), Span(57, 68)))
    >>

\* print 1 or nil; print nil or 2; print nil or false; print "s" or 1;
DisjunctionValues ==
    <<
       PrintStatement(Binary("Disjunction", Literal(NumberLiteral(1), Span(6, 7)),
       Literal(LitNil, Span(11, 14)), Span(6, 14))),
       PrintStatement(Binary("Disjunction", Literal(LitNil, Span(22, 25)),
       Literal(NumberLiteral(2), Span(29, 30)), Span(22, 30))),
       PrintStatement(Binary("Disjunction", Literal(LitNil, Span(38, 41)),
       Literal(LitFalse, Span(45, 50)), Span(38, 50))),
       PrintStatement(Binary("Disjunction", Literal(StringLiteral("s"), Span(58, 61)),
       Literal(NumberLiteral(1), Span(65, 66)), Span(58, 66)))
    >>

\* fun p() { print "p"; return 1; } print true or p(); print false or p(); print nil and p(); print 1 and p();
LogicEffects ==
    <<
       FunctionDeclaration(Identifier("p", Span(4, 5)), <<>>,
       <<PrintStatement(Literal(StringLiteral("p"), Span(16, 19))),
       ReturnStatement(Literal(NumberLiteral(1), Span(28, 29)))>>, Span(4, 5)),
       PrintStatement(Binary("Disjunction", Literal(LitTrue, Span(39, 43)),
       Call(Identifier("p", Span(47, 48)), <<>>, Span(47, 50)), Span(39, 50))),
       PrintStatement(Binary("Disjunction", Literal(LitFalse, Span(58, 63)),
       Call(Identifier("p", Span(67, 68)), <<>>, Span(67, 70)), Span(58, 70))),
       PrintStatement(Binary("Conjunction", Literal(LitNil, Span(78, 81)),
       Call(Identifier("p", Span(86, 87)), <<>>, Span(86, 89)), Span(78, 89))),
       PrintStatement(Binary("Conjunction", Literal(NumberLiteral(1), Span(97, 98)),
       Call(Identifier("p", Span(103, 104)), <<>>, Span(103, 106)), Span(97, 106)))
    >>

\* fun f(x) { print "body"; } f(); f(1, 2); f(1);
ArityFunction ==
    <<
       FunctionDeclaration(Identifier("f", Span(4, 5)), <<Identifier("x", Span(6, 7))>>,
       <<PrintStatement(Literal(StringLiteral("body"), Span(17, 23)))>>, Span(4, 5)),
       ExpressionStatement(Call(Identifier("f", Span(27, 28)), <<>>, Span(27, 30))),
       ExpressionStatement(Call(Identifier("f", Span(32, 33)),
       <<Literal(NumberLiteral(1), Span(34, 35)), Literal(NumberLiteral(2), Span(37,
       38))>>, Span(32, 39))),
       ExpressionStatement(Call(Identifier("f", Span(41, 42)),
       <<Literal(NumberLiteral(1), Span(43, 44))>>, Span(41, 45)))
    >>

\* clock(1); print clock() > 0;
ArityNative ==
    <<
       ExpressionStatement(Call(Identifier("clock", Span(0, 5)),
       <<Literal(NumberLiteral(1), Span(6, 7))>>, Span(0, 8))),
       PrintStatement(Binary("StrictSuperiority", Call(Identifier("clock", Span(16,
       21)), <<>>, Span(16, 23)), Literal(NumberLiteral(0), Span(26, 27)), Span(16,
       27)))
    >>

\* class C { } C(1); C();
ArityClass ==
    <<
       ClassDeclaration(Identifier("C", Span(6, 7))),
       ExpressionStatement(Call(Identifier("C", Span(12, 13)),
       <<Literal(NumberLiteral(1), Span(14, 15))>>, Span(12, 16))),
       ExpressionStatement(Call(Identifier("C", Span(18, 19)), <<>>, Span(18, 21)))
    >>

\* fun f(x) { print "body"; } var a = 0; f(a = 1, a = 2); print a;
ArityEffects ==
    <<
       FunctionDeclaration(Identifier("f", Span(4, 5)), <<Identifier("x", Span(6, 7))>>,
       <<PrintStatement(Literal(StringLiteral("body"), Span(17, 23)))>>, Span(4, 5)),
       VariableDeclaration(Identifier("a", Span(31, 32)), Literal(NumberLiteral(0),
       Span(35, 36))),
       ExpressionStatement(Call(Identifier("f", Span(38, 39)),
       <<Assignment(Identifier("a", Span(40, 41)), Literal(NumberLiteral(1), Span(44,
       45)), Span(40, 45)), Assignment(Identifier("a", Span(47, 48)),
       Literal(NumberLiteral(2), Span(51, 52)), Span(47, 52))>>, Span(38, 53))),
       PrintStatement(Identifier("a", Span(61, 62)))
    >>

\* fun f(x) { print "body"; } { f(); } print 1;
ArityInBlock ==
    <<
       FunctionDeclaration(Identifier("f", Span(4, 5)), <<Identifier("x", Span(6, 7))>>,
       <<PrintStatement(Literal(StringLiteral("body"), Span(17, 23)))>>, Span(4, 5)),
       Block(<<ExpressionStatement(Call(Identifier("f", Span(29, 30)), <<>>, Span(29,
       32)))>>),
       PrintStatement(Literal(NumberLiteral(1), Span(42, 43)))
    >>

\* class C { } print C(); print 1;
PrintObject ==
    <<
       ClassDeclaration(Identifier("C", Span(6, 7))),
       PrintStatement(Call(Identifier("C", Span(18, 19)), <<>>, Span(18, 21))),
       PrintStatement(Literal(NumberLiteral(1), Span(29, 30)))
    >>

\* fun f() { } fun g() { } var h = f; print f == f; print h == f; print f == g; print f != f; print f != g;
FunctionEquality ==
    <<
       FunctionDeclaration(Identifier("f", Span(4, 5)), <<>>, <<>>, Span(4, 5)),
       FunctionDeclaration(Identifier("g", Span(16, 17)), <<>>, <<>>, Span(16, 17)),
       VariableDeclaration(Identifier("h", Span(28, 29)), Identifier("f", Span(32, 33))),
       PrintStatement(Binary("Equality", Identifier("f", Span(41, 42)), Identifier("f",
       Span(46, 47)), Span(41, 47))),
       PrintStatement(Binary("Equality", Identifier("h", Span(55, 56)), Identifier("f",
       Span(60, 61)), Span(55, 61))),
       PrintStatement(Binary("Equality", Identifier("f", Span(69, 70)), Identifier("g",
       Span(74, 75)), Span(69, 75))),
       PrintStatement(Binary("Inequality", Identifier("f", Span(83, 84)),
       Identifier("f", Span(88, 89)), Span(83, 89))),
       PrintStatement(Binary("Inequality", Identifier("f", Span(97, 98)),
       Identifier("g", Span(102, 103)), Span(97, 103)))
    >>

\* fun c(i) { print "c"; return i < 2; } fun s(i) { print "s"; return i + 1; } for (var i = 0; c(i); i = s(i)) print i;
ForOrder ==
    <<
       FunctionDeclaration(Identifier("c", Span(4, 5)), <<Identifier("i", Span(6, 7))>>,
       <<PrintStatement(Literal(StringLiteral("c"), Span(17, 20))),
       ReturnStatement(Binary("StrictInferiority", Identifier("i", Span(29, 30)),
       Literal(NumberLiteral(2), Span(33, 34)), Span(29, 34)))>>, Span(4, 5)),
       FunctionDeclaration(Identifier("s", Span(42, 43)), <<Identifier("i", Span(44,
       45))>>, <<PrintStatement(Literal(StringLiteral("s"), Span(55, 58))),
       ReturnStatement(Binary("Addition", Identifier("i", Span(67, 68)),
       Literal(NumberLiteral(1), Span(71, 72)), Span(67, 72)))>>, Span(42, 43)),
       ForLoop(Some(VariableDeclaration(Identifier("i", Span(85, 86)),
       Literal(NumberLiteral(0), Span(89, 90)))), Some(Call(Identifier("c", Span(92,
       93)), <<Identifier("i", Span(94, 95))>>, Span(92, 96))),
       Some(Assignment(Identifier("i", Span(98, 99)), Call(Identifier("s", Span(102,
       103)), <<Identifier("i", Span(104, 105))>>, Span(102, 106)), Span(98, 106))),
       PrintStatement(Identifier("i", Span(114, 115))))
    >>

\* for (var i = 0; i < 2; i = i + 1) print i; print i;
ForTopLevel ==
    <<
       ForLoop(Some(VariableDeclaration(Identifier("i", Span(9, 10)),
       Literal(NumberLiteral(0), Span(13, 14)))), Some(Binary("StrictInferiority",
       Identifier("i", Span(16, 17)), Literal(NumberLiteral(2), Span(20, 21)), Span(16,
       21))), Some(Assignment(Identifier("i", Span(23, 24)), Binary("Addition",
       Identifier("i", Span(27, 28)), Literal(NumberLiteral(1), Span(31, 32)), Span(27,
       32)), Span(23, 32))), PrintStatement(Identifier("i", Span(40, 41)))),
       PrintStatement(Identifier("i", Span(49, 50)))
    >>

\* { for (var i = 0; i < 2; i = i + 1) print i; print i; }
ForInBlock ==
    <<
       Block(<<ForLoop(Some(VariableDeclaration(Identifier("i", Span(11, 12)),
       Literal(NumberLiteral(0), Span(15, 16)))), Some(Binary("StrictInferiority",
       Identifier("i", Span(18, 19)), Literal(NumberLiteral(2), Span(22, 23)), Span(18,
       23))), Some(Assignment(Identifier("i", Span(25, 26)), Binary("Addition",
       Identifier("i", Span(29, 30)), Literal(NumberLiteral(1), Span(33, 34)), Span(29,
       34)), Span(25, 34))), PrintStatement(Identifier("i", Span(42, 43)))),
       PrintStatement(Identifier("i", Span(51, 52)))>>)
    >>

\* fun f() { for (var i = 0; i < 2; i = i + 1) print i; print i; } f();
ForInFunction ==
    <<
       FunctionDeclaration(Identifier("f", Span(4, 5)), <<>>,
       <<ForLoop(Some(VariableDeclaration(Identifier("i", Span(19, 20)),
       Literal(NumberLiteral(0), Span(23, 24)))), Some(Binary("StrictInferiority",
       Identifier("i", Span(26, 27)), Literal(NumberLiteral(2), Span(30, 31)), Span(26,
       31))), Some(Assignment(Identifier("i", Span(33, 34)), Binary("Addition",
       Identifier("i", Span(37, 38)), Literal(NumberLiteral(1), Span(41, 42)), Span(37,
       42)), Span(33, 42))), PrintStatement(Identifier("i", Span(50, 51)))),
       PrintStatement(Identifier("i", Span(59, 60)))>>, Span(4, 5)),
       ExpressionStatement(Call(Identifier("f", Span(64, 65)), <<>>, Span(64, 67)))
    >>

\* for (var i = 5; i < 2; i = i + 1) print i; print "end";
ForFalseAtOnce ==
    <<
       ForLoop(Some(VariableDeclaration(Identifier("i", Span(9, 10)),
       Literal(NumberLiteral(5), Span(13, 14)))), Some(Binary("StrictInferiority",
       Identifier("i", Span(16, 17)), Literal(NumberLiteral(2), Span(20, 21)), Span(16,
       21))), Some(Assignment(Identifier("i", Span(23, 24)), Binary("Addition",
       Identifier("i", Span(27, 28)), Literal(NumberLiteral(1), Span(31, 32)), Span(27,
       32)), Span(23, 32))), PrintStatement(Identifier("i", Span(40, 41)))),
       PrintStatement(Literal(StringLiteral("end"), Span(49, 54)))
    >>

\* var n = 0; for (; n < 2;) { print n; n = n + 1; } print "end";
ForNoStep ==
    <<
       VariableDeclaration(Identifier("n", Span(4, 5)), Literal(NumberLiteral(0),
       Span(8, 9))),
       ForLoop(None, Some(Binary("StrictInferiority", Identifier("n", Span(18, 19)),
       Literal(NumberLiteral(2), Span(22, 23)), Span(18, 23))), None,
       Block(<<PrintStatement(Identifier("n", Span(34, 35))),
       ExpressionStatement(Assignment(Identifier("n", Span(37, 38)), Binary("Addition",
       Identifier("n", Span(41, 42)), Literal(NumberLiteral(1), Span(45, 46)), Span(41,
       46)), Span(37, 46)))>>)),
       PrintStatement(Literal(StringLiteral("end"), Span(56, 61)))
    >>

\* print 1; print nope; print 2; var a = 3; print a;
HaltOnError ==
    <<
       PrintStatement(Literal(NumberLiteral(1), Span(6, 7))),
       PrintStatement(Identifier("nope", Span(15, 19))),
       PrintStatement(Literal(NumberLiteral(2), Span(27, 28))),
       VariableDeclaration(Identifier("a", Span(34, 35)), Literal(NumberLiteral(3),
       Span(38, 39))),
       PrintStatement(Identifier("a", Span(47, 48)))
    >>

\* var a = 0; "s"(a = 1, a = a + 1); print a;
CallNotCallable ==
    <<
       VariableDeclaration(Identifier("a", Span(4, 5)), Literal(NumberLiteral(0),
       Span(8, 9))),
       ExpressionStatement(Call(Literal(StringLiteral("s"), Span(11, 14)),
       <<Assignment(Identifier("a", Span(15, 16)), Literal(NumberLiteral(1), Span(19,
       20)), Span(15, 20)), Assignment(Identifier("a", Span(22, 23)), Binary("Addition",
       Identifier("a", Span(26, 27)), Literal(NumberLiteral(1), Span(30, 31)), Span(26,
       31)), Span(22, 31))>>, Span(11, 32))),
       PrintStatement(Identifier("a", Span(40, 41)))
    >>

\* fun f(x, y, z) { print "body"; } var a = 0; f(a = 1, nope, a = 2); print a;
CallArgumentError ==
    <<
       FunctionDeclaration(Identifier("f", Span(4, 5)), <<Identifier("x", Span(6, 7)),
       Identifier("y", Span(9, 10)), Identifier("z", Span(12, 13))>>,
       <<PrintStatement(Literal(StringLiteral("body"), Span(23, 29)))>>, Span(4, 5)),
       VariableDeclaration(Identifier("a", Span(37, 38)), Literal(NumberLiteral(0),
       Span(41, 42))),
       ExpressionStatement(Call(Identifier("f", Span(44, 45)),
       <<Assignment(Identifier("a", Span(46, 47)), Literal(NumberLiteral(1), Span(50,
       51)), Span(46, 51)), Identifier("nope", Span(53, 57)), Assignment(Identifier("a",
       Span(59, 60)), Literal(NumberLiteral(2), Span(63, 64)), Span(59, 64))>>, Span(44,
       65))),
       PrintStatement(Identifier("a", Span(73, 74)))
    >>

\* fun f(x) { print x; } var a = f; a(a = 1); print a;
CallCalleeFirst ==
    <<
       FunctionDeclaration(Identifier("f", Span(4, 5)), <<Identifier("x", Span(6, 7))>>,
       <<PrintStatement(Identifier("x", Span(17, 18)))>>, Span(4, 5)),
       VariableDeclaration(Identifier("a", Span(26, 27)), Identifier("f", Span(30, 31))),
       ExpressionStatement(Call(Identifier("a", Span(33, 34)),
       <<Assignment(Identifier("a", Span(35, 36)), Literal(NumberLiteral(1), Span(39,
       40)), Span(35, 40))>>, Span(33, 41))),
       PrintStatement(Identifier("a", Span(49, 50)))
    >>

\* var a = 0; nope(a = 1); print a;
CallCalleeError ==
    <<
       VariableDeclaration(Identifier("a", Span(4, 5)), Literal(NumberLiteral(0),
       Span(8, 9))),
       ExpressionStatement(Call(Identifier("nope", Span(11, 15)),
       <<Assignment(Identifier("a", Span(16, 17)), Literal(NumberLiteral(1), Span(20,
       21)), Span(16, 21))>>, Span(11, 22))),
       PrintStatement(Identifier("a", Span(30, 31)))
    >>

\* print L op R; for a strict binary operator and two operands, each a literal or
\* the native function clock.
OperandKinds == {"zero", "two", "six", "string", "true", "nil", "clock"}

OperandWidth(kind) ==
    CASE kind \in {"zero", "two", "six"} -> 1
      [] kind \in {"string", "nil"} -> 3
      [] kind = "true" -> 4
      [] kind = "clock" -> 5

OperandExpression(kind, start) ==
    LET span == Span(start, start + OperandWidth(kind)) IN
    CASE kind = "zero" -> Literal(NumberLiteral(0), span)
      [] kind = "two" -> Literal(NumberLiteral(2), span)
      [] kind = "six" -> Literal(NumberLiteral(6), span)
      [] kind = "string" -> Literal(StringLiteral("s"), span)
      [] kind = "true" -> Literal(LitTrue, span)
      [] kind = "nil" -> Literal(LitNil, span)
      [] kind = "clock" -> Identifier("clock", span)

StrictOperators ==
    {"Subtraction", "Multiplication", "Division", "StrictInferiority", "Inferiority",
     "StrictSuperiority", "Superiority"}

OperatorWidth(operator) == IF operator \in {"Inferiority", "Superiority"} THEN 2 ELSE 1

BinaryProgram(operator, left, right) ==
    LET l == OperandExpression(left, 6)
        r == OperandExpression(right, l.location.end.char + OperatorWidth(operator) + 2)
    IN <<PrintStatement(Binary(operator, l, r, combine(l.location, r.location)))>>

RightOperandKinds == OperandKinds \ {"six"}

\* The fragment inside d nested blocks: { { fragment } }
RECURSIVE Nest(_, _)
Nest(d, fragment) == IF d = 0 THEN fragment ELSE <<Block(Nest(d - 1, fragment))>>

\* Shadowing at depth d.
ShadowProgram(d) == Nest(d, ShadowFragment)

\* fun f(x) { } and then, at depth d, a call of f beside the caller's own x.
KeepProgram(d) == CallPrefix \o Nest(d, KeepFragment)

\* fun f(x) { } and then, at depth d, a call of f and a read of x.
LeakProgram(d) == CallPrefix \o Nest(d, LeakFragment)

\* fun f(a) { {d return a + 1; print "dead"; }d print "dead"; } print f(41);
ReturnProgram(d) ==
    <<FunctionDeclaration(Identifier("f", Span(4, 5)), <<Identifier("a", Span(6, 7))>>,
                          Nest(d, ReturnInner) \o ReturnTail, Span(4, 5))>>
    \o ReturnCall

Depths == 0..MaxNest

Programs ==
    {Scenario1, Scenario3, Scenario4, Scenario5, Scenario6,
     ErrorInBlock, ReturnInBlock, ReturnInFor, ErrorInFunction, ErrorInFor,
     NestedCall, RecursiveCall, ReturnInLoop, NoReturn, NearestCall, ReturnNil,
     ConjunctionShortCircuit, DisjunctionShortCircuit, ConjunctionValues,
     DisjunctionValues, LogicEffects, ArityFunction, ArityNative, ArityClass,
     ArityEffects, ArityInBlock, PrintObject}
    \cup {ShadowProgram(d) : d \in Depths}
    \cup {KeepProgram(d) : d \in Depths}
    \cup {LeakProgram(d) : d \in Depths}
    \cup {ReturnProgram(d) : d \in Depths}
    \cup {FunctionEquality, ForOrder, ForTopLevel, ForInBlock, ForInFunction,
          ForFalseAtOnce, ForNoStep, HaltOnError, CallNotCallable, CallArgumentError,
          CallCalleeFirst, CallCalleeError}

---------------------------------------------------------------------------
(* The driver: run (src/src/main.rs).  One step runs one top-level         *)
(* statement; an error is printed and the loop goes on with the next       *)
(* statement; a panic ends the process.                                    *)

\* What the system clock may read during a step, in seconds.
ClockTicks == {1000, 1001}

Evaluator(now) == [env |-> env, out |-> out, now |-> now]

Running == ~halted /\ pc <= Len(stmts)

\* The Environment and the TokenStream the harnesses below drive, at rest.
ApiIdle ==
    /\ apiEnv = EnvironmentNew
    /\ apiLast = [op |-> "new", calls |-> 0]

TokenStreamIdle(text) ==
    [op |-> "new", calls |-> 0, pre |-> TokenStreamNew(text), res |-> None,
     before |-> [op |-> "new", res |-> None], save |-> None, at |-> None,
     returned |-> None, panicked |-> FALSE]

TokIdle ==
    /\ ts = TokenStreamNew(<<>>)
    /\ tsLast = TokenStreamIdle(<<>>)

\* The character cursor, the scanner and the parser the harnesses below drive.
CursorNew(text) ==
    [op |-> "new", calls |-> 0, text |-> text, returned |-> <<>>, res |-> None,
     pre |-> LocationTrackingIteratorNew(text)]

CursorIdle ==
    /\ cursor = LocationTrackingIteratorNew(<<>>)
    /\ cursorLast = CursorNew(<<>>)

ScanIdle == scanner = [scan_all_new(<<>>) EXCEPT !.done = TRUE]

\* The parsing of one text: the text, the last operation on it, what parsing it
\* gave, the canonical text of that expression, and what parsing that gave.
ParserNew(text) ==
    [op |-> "new", text |-> text, result |-> None, printed |-> None, again |-> None]

ParseIdle == parser = [ParserNew(<<>>) EXCEPT !.op = "idle"]

OthersIdle == CursorIdle /\ ScanIdle /\ ParseIdle

EvalIdle ==
    /\ stmts = <<>>
    /\ pc = 1
    /\ env = EvaluatorNewEnv
    /\ out = <<>>
    /\ reported = <<>>
    /\ halted = FALSE

Init ==
    /\ \/ stmts \in Programs
       \/ \E operator \in StrictOperators, left \in OperandKinds,
             right \in RightOperandKinds :
              stmts = BinaryProgram(operator, left, right)
    /\ pc = 1
    /\ env = EvaluatorNewEnv
    /\ out = <<>>
    /\ reported = <<>>
    /\ halted = FALSE
    /\ ApiIdle
    /\ TokIdle
    /\ OthersIdle

\* Ok(_) => ()
RunStatementOk ==
    /\ Running
    /\ \E now \in ClockTicks :
       \E res \in {visit_statement(stmts[pc], Evaluator(now))} :
           /\ res.ok
           /\ env' = res.ev.env
           /\ out' = res.ev.out
    /\ pc' = pc + 1
    /\ UNCHANGED <<stmts, reported, halted, apiEnv, apiLast, tokVars, cursorVars, scanVars, parseVars>>

\* Err(e) => print!("{}", e)
RunStatementErr ==
    /\ Running
    /\ \E now \in ClockTicks :
       \E res \in {visit_statement(stmts[pc], Evaluator(now))} :
           /\ ~res.ok
           /\ res.err # Panic
           /\ env' = res.ev.env
           /\ out' = res.ev.out
           /\ reported' = Append(reported, res.err)
    /\ pc' = pc + 1
    /\ UNCHANGED <<stmts, halted, apiEnv, apiLast, tokVars, cursorVars, scanVars, parseVars>>

\* A todo!() was reached: the thread panics and the process ends.
RunStatementPanic ==
    /\ Running
    /\ \E now \in ClockTicks :
       \E res \in {visit_statement(stmts[pc], Evaluator(now))} :
           /\ ~res.ok
           /\ res.err = Panic
           /\ env' = res.ev.env
           /\ out' = res.ev.out
    /\ halted' = TRUE
    /\ UNCHANGED <<stmts, pc, reported, apiEnv, apiLast, tokVars, cursorVars, scanVars, parseVars>>

Next == RunStatementOk \/ RunStatementErr \/ RunStatementPanic

Spec == Init /\ [][Next]_vars

Finished == ~halted /\ pc > Len(stmts)

---------------------------------------------------------------------------
(* The Environment under direct use: any sequence of at most MaxCalls      *)
(* calls of its methods.  apiLast records the last call: its arguments,    *)
(* the Environment before it (pre) and what it returned (res).             *)

Names == {"x", "y"}
Values == {Number(1), Number(2)}
ArgumentSpan == Span(0, 1)

Called(op, fields) == [op |-> op, calls |-> apiLast.calls + 1, pre |-> apiEnv] @@ fields

InitEnv == ApiIdle /\ EvalIdle /\ TokIdle /\ OthersIdle

PushEnv ==
    /\ apiLast.calls < MaxCalls
    /\ apiEnv' = push_env(apiEnv)
    /\ apiLast' = Called("push_env", <<>>)
    /\ UNCHANGED <<evalVars, tokVars, cursorVars, scanVars, parseVars>>

PopEnv ==
    /\ apiLast.calls < MaxCalls
    /\ apiEnv' = pop_env(apiEnv)
    /\ apiLast' = Called("pop_env", <<>>)
    /\ UNCHANGED <<evalVars, tokVars, cursorVars, scanVars, parseVars>>

Define ==
    /\ apiLast.calls < MaxCalls
    /\ \E name \in Names, value \in Values :
          /\ apiEnv' = define(apiEnv, name, value)
          /\ apiLast' = Called("define", [name |-> name, value |-> value])
    /\ UNCHANGED <<evalVars, tokVars, cursorVars, scanVars, parseVars>>

Assign ==
    /\ apiLast.calls < MaxCalls
    /\ \E name \in Names, value \in Values :
          LET r == assign(apiEnv, name, Value(value, ArgumentSpan)) IN
          /\ apiEnv' = r.env
          /\ apiLast' = Called("assign", [name |-> name, value |-> Value(value, ArgumentSpan),
                                          res |-> IF r.ok THEN [ok |-> TRUE]
                                                  ELSE [ok |-> FALSE, err |-> r.err]])
    /\ UNCHANGED <<evalVars, tokVars, cursorVars, scanVars, parseVars>>

Get ==
    /\ apiLast.calls < MaxCalls
    /\ \E name \in Names :
          /\ apiEnv' = apiEnv
          /\ apiLast' = Called("get", [name |-> name, res |-> get(apiEnv, name)])
    /\ UNCHANGED <<evalVars, tokVars, cursorVars, scanVars, parseVars>>

NextEnv == PushEnv \/ PopEnv \/ Define \/ Assign \/ Get

SpecEnv == InitEnv /\ [][NextEnv]_vars

---------------------------------------------------------------------------
(* The TokenStream under direct use: any sequence of at most MaxTokenCalls *)
(* calls on a stream over one of the texts.  tsLast records the last call  *)
(* (op, the stream before it, what it returned), the call before it, the   *)
(* position last saved (save) and the stream it was saved at (at), the     *)
(* token last returned by next or peek, and whether a call has panicked.   *)

\* a = b
TextAssignment == <<"a", " ", "=", " ", "b">>
\* 1
TextNumber == <<"1">>
\* the empty text
TextEmpty == <<>>
\* x // c
TextComment == <<"x", " ", "/", "/", "c">>
\* != "s"      and, on the next line, 1.5;
TextMixed == <<"!", "=", " ", "\"", "s", "\"", "\n", "1", ".", "5", ";">>

Texts == {TextAssignment, TextNumber, TextEmpty, TextComment, TextMixed}

StreamCalled(op, r) ==
    [op |-> op, calls |-> tsLast.calls + 1, pre |-> ts, res |-> r.res,
     before |-> [op |-> tsLast.op, res |-> tsLast.res], save |-> tsLast.save,
     at |-> tsLast.at,
     returned |-> IF op \in {"next", "peek"} /\ r.res # None THEN r.res
                  ELSE tsLast.returned,
     panicked |-> r.panic]

StreamReady == ~tsLast.panicked /\ tsLast.calls < MaxTokenCalls

InitTok ==
    /\ \E text \in Texts :
          /\ ts = TokenStreamNew(text)
          /\ tsLast = TokenStreamIdle(text)
    /\ ApiIdle
    /\ EvalIdle
    /\ OthersIdle

StreamNext ==
    /\ StreamReady
    /\ \E r \in {next(ts)} :
          /\ ts' = r.ts
          /\ tsLast' = StreamCalled("next", r)
    /\ UNCHANGED <<evalVars, apiVars, cursorVars, scanVars, parseVars>>

StreamPeek ==
    /\ StreamReady
    /\ \E r \in {peek(ts)} :
          /\ ts' = r.ts
          /\ tsLast' = StreamCalled("peek", r)
    /\ UNCHANGED <<evalVars, apiVars, cursorVars, scanVars, parseVars>>

StreamBack ==
    /\ StreamReady
    /\ \E r \in {back(ts)} :
          /\ ts' = r.ts
          /\ tsLast' = StreamCalled("back", r)
    /\ UNCHANGED <<evalVars, apiVars, cursorVars, scanVars, parseVars>>

StreamSavePosition ==
    /\ StreamReady
    /\ ts' = ts
    /\ tsLast' = [StreamCalled("save_position", Returned(ts, None))
                  EXCEPT !.save = Some(save_position(ts)), !.at = Some(ts)]
    /\ UNCHANGED <<evalVars, apiVars, cursorVars, scanVars, parseVars>>

StreamLoadPosition ==
    /\ StreamReady
    /\ tsLast.save # None
    /\ \E r \in {load_position(ts, tsLast.save[1])} :
          /\ ts' = r.ts
          /\ tsLast' = StreamCalled("load_position", r)
    /\ UNCHANGED <<evalVars, apiVars, cursorVars, scanVars, parseVars>>

NextTok ==
    StreamNext \/ StreamPeek \/ StreamBack \/ StreamSavePosition \/ StreamLoadPosition

SpecTok == InitTok /\ [][NextTok]_vars

---------------------------------------------------------------------------
(* The character cursor under direct use: any sequence of at most          *)
(* MaxCursorCalls calls on a cursor over a text of at most MaxTextLen      *)
(* characters.  cursorLast records the text, the characters next has       *)
(* returned so far, and the last call with the cursor before it.           *)

CursorChars == {"a", "b", "\n"}

CursorTexts == UNION {[1..n -> CursorChars] : n \in 0..MaxTextLen}

CursorCalled(op, res) ==
    [op |-> op, calls |-> cursorLast.calls + 1, text |-> cursorLast.text,
     returned |-> IF op = "next" /\ res # None THEN Append(cursorLast.returned, res[1])
                  ELSE cursorLast.returned,
     res |-> res, pre |-> cursor]

CursorReady == cursorLast.calls < MaxCursorCalls

InitCursor ==
    /\ \E text \in CursorTexts :
          /\ cursor = LocationTrackingIteratorNew(text)
          /\ cursorLast = CursorNew(text)
    /\ ApiIdle
    /\ EvalIdle
    /\ TokIdle
    /\ ScanIdle
    /\ ParseIdle

CursorNext ==
    /\ CursorReady
    /\ \E r \in {it_next(cursor)} :
          /\ cursor' = r.it
          /\ cursorLast' = CursorCalled("next", r.c)
    /\ UNCHANGED <<evalVars, apiVars, tokVars, scanVars, parseVars>>

CursorPeek ==
    /\ CursorReady
    /\ \E r \in {it_peek(cursor)} :
          /\ cursor' = r.it
          /\ cursorLast' = CursorCalled("peek", r.c)
    /\ UNCHANGED <<evalVars, apiVars, tokVars, scanVars, parseVars>>

CursorPeek2 ==
    /\ CursorReady
    /\ \E r \in {peek_2(cursor)} :
          /\ cursor' = r.it
          /\ cursorLast' = CursorCalled("peek_2", r.c)
    /\ UNCHANGED <<evalVars, apiVars, tokVars, scanVars, parseVars>>

CursorPeekLocation ==
    /\ CursorReady
    /\ \E r \in {peek_location(cursor)} :
          /\ cursor' = r.it
          /\ cursorLast' = CursorCalled("peek_location", r.loc)
    /\ UNCHANGED <<evalVars, apiVars, tokVars, scanVars, parseVars>>

CursorPeekLocation2 ==
    /\ CursorReady
    /\ \E r \in {peek_location_2(cursor)} :
          /\ cursor' = r.it
          /\ cursorLast' = CursorCalled("peek_location_2", r.loc)
    /\ UNCHANGED <<evalVars, apiVars, tokVars, scanVars, parseVars>>

NextCursor ==
    CursorNext \/ CursorPeek \/ CursorPeek2 \/ CursorPeekLocation \/ CursorPeekLocation2

SpecCursor == InitCursor /\ [][NextCursor]_vars

---------------------------------------------------------------------------
(* The scanner under scan_all: one step is one iteration of its loop, on   *)
(* any text of at most MaxScanLen of the characters below.                 *)

ScanChars == {"1", ".", "!", "=", "<", ">", " ", "a", "@", "\n", "/", "\""}

ScanTexts == UNION {[1..n -> ScanChars] : n \in 0..MaxScanLen}

InitScan ==
    /\ \E code \in ScanTexts : scanner = scan_all_new(code)
    /\ ApiIdle
    /\ EvalIdle
    /\ TokIdle
    /\ CursorIdle
    /\ ParseIdle

ScanAllStep ==
    /\ ~scanner.done
    /\ scanner' = scan_all_step(scanner)
    /\ UNCHANGED <<evalVars, apiVars, tokVars, cursorVars, parseVars>>

NextScan == ScanAllStep

SpecScan == InitScan /\ [][NextScan]_vars

---------------------------------------------------------------------------
(* The parser of expressions on a text: parse_expression on a token stream *)
(* over the text, then the canonical text of the expression it gave,       *)
(* parsed again (as the parser's tests do with to_string).                 *)

\* The words of a text, one space between two words.
RECURSIVE Join(_)
Join(words) ==
    IF words = <<>> THEN <<>>
    ELSE IF Len(words) = 1 THEN words[1]
    ELSE words[1] \o <<" ">> \o Join(Tail(words))

Parenthesised(text) == <<"(">> \o text \o <<")">>

\* The binary operators as they are written.
BinaryOperators == {BinaryOperatorDisplay[operator] : operator \in DOMAIN BinaryOperatorDisplay}

\* a op1 b op2 c, without parentheses and with either pair in parentheses.
Chain(op1, op2) == Join(<<<<"a">>, op1, <<"b">>, op2, <<"c">>>>)
LeftGrouped(op1, op2) ==
    Join(<<Parenthesised(Join(<<<<"a">>, op1, <<"b">>>>)), op2, <<"c">>>>)
RightGrouped(op1, op2) ==
    Join(<<<<"a">>, op1, Parenthesised(Join(<<<<"b">>, op2, <<"c">>>>))>>)
\* -a op b and a op !b.
UnaryLeft(op) == Join(<<<<"-", "a">>, op, <<"b">>>>)
UnaryRight(op) == Join(<<<<"a">>, op, <<"!", "b">>>>)

ChainTexts ==
    UNION {{Chain(op1, op2), LeftGrouped(op1, op2), RightGrouped(op1, op2)} :
               op1 \in BinaryOperators, op2 \in BinaryOperators}
        \cup UNION {{UnaryLeft(op), UnaryRight(op)} : op \in BinaryOperators}

\* What stands to the left and to the right of the `=` of an assignment.
LeftPieces ==
    {<<"a">>, <<"1">>, <<"(", "a", ")">>, <<"-", "a">>, <<"!", "a">>,
     Join(<<<<"a">>, <<"+">>, <<"b">>>>), Parenthesised(Join(<<<<"a">>, <<"+">>, <<"b">>>>)),
     Join(<<<<"a">>, <<"o", "r">>, <<"b">>>>), <<"n", "i", "l">>, <<"\"", "s", "\"">>}

RightPieces ==
    {<<"b">>, <<"1">>, <<"(", "b", ")">>, <<"-", "b">>,
     Join(<<<<"b">>, <<"*">>, <<"c">>>>), Join(<<<<"b">>, <<"=">>, <<"1">>>>),
     Join(<<<<"1">>, <<"=">>, <<"2">>>>), <<")">>, <<>>, <<"@">>,
     Join(<<<<"b">>, <<"=">>, <<"c">>, <<"=">>, <<"1">>>>)}

AssignmentText(left, right) == left \o <<" ", "=", " ">> \o right

AssignmentTexts == {AssignmentText(left, right) : left \in LeftPieces, right \in RightPieces}

OtherTexts ==
    {<<>>, <<"a">>, <<"1", ".", "5", "0">>, <<"0", "1">>, <<"1", ".">>, <<"\"", "s", "\"">>,
     <<"t", "r", "u", "e">>, <<"f", "a", "l", "s", "e">>, <<"n", "i", "l">>,
     <<"-", "-", "a">>, <<"!", "(", "a", " ", "+", " ", "b", ")">>,
     <<"-", "(", "a", " ", "=", " ", "b", ")">>,
     <<"a", " ", "+", " ", "(", "b", " ", "=", " ", "1", ")">>,
     <<"a", "(", ")">>, <<"a", "(", "1", ",", " ", "b", ")", "(", "c", ")">>,
     <<"a", "(", "1", " ", "b", ")">>, <<"a", "(", "1">>, <<"a", "(">>,
     <<"(", "a">>, <<"(", "a", " ", "b", ")">>, <<")">>, <<"a", " ", "+">>, <<"<">>}

ParseTexts == ChainTexts \cup AssignmentTexts \cup OtherTexts

\* The Result of a parsing function, without the token stream.
Outcome(r) == IF r.ok THEN [ok |-> TRUE, expr |-> r.expr] ELSE [ok |-> FALSE, err |-> r.err]

\* parse_expression(&mut TokenStream::new(text))
Parse(text) == Outcome(call("parse_expression", TokenStreamNew(text)))

\* Whether a call is among the nodes of the expression.
RECURSIVE HasCall(_)
HasCall(expr) ==
    CASE expr.k = "Call" -> TRUE
      [] expr.k = "Unary" -> HasCall(expr.expr)
      [] expr.k = "Binary" -> HasCall(expr.left) \/ HasCall(expr.right)
      [] expr.k = "Assignment" -> HasCall(expr.expr)
      [] OTHER -> FALSE

InitParse ==
    /\ \E text \in ParseTexts : parser = ParserNew(text)
    /\ ApiIdle
    /\ EvalIdle
    /\ TokIdle
    /\ CursorIdle
    /\ ScanIdle

ParseExpression ==
    /\ parser.op = "new"
    /\ \E r \in {Parse(parser.text)} :
           parser' = [parser EXCEPT !.op = "parse", !.result = Some(r)]
    /\ UNCHANGED <<evalVars, apiVars, tokVars, cursorVars, scanVars>>

PrintAndParse ==
    /\ parser.op = "parse"
    /\ parser.result[1].ok
    /\ ~HasCall(parser.result[1].expr)
    /\ \E text \in {to_string(parser.result[1].expr)} :
           \E r \in {Parse(text)} :
               parser' = [parser EXCEPT !.op = "print", !.printed = Some(text),
                                        !.again = Some(r)]
    /\ UNCHANGED <<evalVars, apiVars, tokVars, cursorVars, scanVars>>

NextParse == ParseExpression \/ PrintAndParse

SpecParse == InitParse /\ [][NextParse]_vars

---------------------------------------------------------------------------
(* The parser of declarations under direct use: a text made of at most     *)
(* MaxDeclarations declarations that parse and of something that does not  *)
(* continue the list, alone, inside a block or inside a function body, is  *)
(* given to parse_declarations, parse_statement or parse_declaration.      *)

\* Declarations that parse, as they are written.
GoodDeclarations ==
       "var" :> \* var a=1;
        <<"v", "a", "r", " ", "a", "=", "1", ";">>
    @@ "var_nil" :> \* var b;
        <<"v", "a", "r", " ", "b", ";">>
    @@ "print" :> \* print a;
        <<"p", "r", "i", "n", "t", " ", "a", ";">>
    @@ "block" :> \* {a;}
        <<"{", "a", ";", "}">>
    @@ "if" :> \* if(a)b;else c;
        <<"i", "f", "(", "a", ")", "b", ";", "e", "l", "s", "e", " ", "c", ";">>
    @@ "while" :> \* while(a)b;
        <<"w", "h", "i", "l", "e", "(", "a", ")", "b", ";">>
    @@ "for" :> \* for(var i;i;i)a;
        <<"f", "o", "r", "(", "v", "a", "r", " ", "i", ";", "i", ";", "i", ")", "a",
            ";">>

\* Declarations that fail to parse, whatever follows them.
BadDeclarations ==
       "assignment" :> \* 1 = 2;
        <<"1", " ", "=", " ", "2", ";">>
    @@ "print" :> \* print;
        <<"p", "r", "i", "n", "t", ";">>
    @@ "var" :> \* var 1;
        <<"v", "a", "r", " ", "1", ";">>
    @@ "fun" :> \* fun f(x{}
        <<"f", "u", "n", " ", "f", "(", "x", "{", "}">>
    @@ "if" :> \* if(a;
        <<"i", "f", "(", "a", ";">>

\* The kind of the statement each declaration that parses gives.
GoodDeclarationKind ==
       "var" :> "VariableDeclaration"
    @@ "var_nil" :> "VariableDeclaration"
    @@ "print" :> "Print"
    @@ "block" :> "Block"
    @@ "if" :> "Conditional"
    @@ "while" :> "WhileLoop"
    @@ "for" :> "ForLoop"

\* What else can follow the last declaration of a list: the end of the input, a
\* closing brace, a statement that lacks its semicolon, a closing parenthesis.
Stops ==
       "end" :> \* 
        <<>>
    @@ "brace" :> \* }
        <<"}">>
    @@ "unfinished" :> \* print 1
        <<"p", "r", "i", "n", "t", " ", "1">>
    @@ "paren" :> \* )
        <<")">>

Lasts == {[bad |-> TRUE, name |-> name] : name \in DOMAIN BadDeclarations}
             \cup {[bad |-> FALSE, name |-> name] : name \in DOMAIN Stops}

LastText(last) == IF last.bad THEN BadDeclarations[last.name] ELSE Stops[last.name]

\* The lists of at most MaxDeclarations names of declarations that parse.
GoodLists ==
    UNION {[1..n -> DOMAIN GoodDeclarations] : n \in 0..MaxDeclarations}

Enclosures == {"none", "block", "function"}

\* fun g()
FunctionHead == <<"f", "u", "n", " ", "g", "(", ")">>

DeclarationsText(goods, last) ==
    Join([i \in 1..Len(goods) |-> GoodDeclarations[goods[i]]] \o <<LastText(last)>>)

DeclarationText(enclosure, goods, last) ==
    CASE enclosure = "none" -> DeclarationsText(goods, last)
      [] enclosure = "block" -> Join(<<<<"{">>, DeclarationsText(goods, last), <<"}">>>>)
      [] enclosure = "function" ->
             Join(<<FunctionHead, <<"{">>, DeclarationsText(goods, last), <<"}">>>>)

DeclarationsNew(enclosure, goods, last) ==
    [op |-> "new", enclosure |-> enclosure, goods |-> goods, last |-> last,
     text |-> DeclarationText(enclosure, goods, last), result |-> None, next |-> None]

\* The Result of a statement parsing function, without the token stream.
StatementOutcome(r) ==
    IF r.ok THEN [ok |-> TRUE, stmt |-> r.stmt] ELSE [ok |-> FALSE, err |-> r.err]

InitDeclarations ==
    /\ \E enclosure \in Enclosures, goods \in GoodLists, last \in Lasts :
           parser = DeclarationsNew(enclosure, goods, last)
    /\ ApiIdle
    /\ EvalIdle
    /\ TokIdle
    /\ CursorIdle
    /\ ScanIdle

\* parse_declarations(&mut TokenStream::new(text))
ParseDeclarations ==
    /\ parser.op = "new"
    /\ parser.enclosure = "none"
    /\ \E r \in {call_statement("parse_declarations", TokenStreamNew(parser.text))} :
           parser' = [parser EXCEPT !.op = "parse_declarations", !.result = Some(r)]
    /\ UNCHANGED <<evalVars, apiVars, tokVars, cursorVars, scanVars>>

\* tokens.next() after parse_declarations
NextAfterDeclarations ==
    /\ parser.op = "parse_declarations"
    /\ \E r \in {next(parser.result[1].ts)} :
           parser' = [parser EXCEPT !.op = "next", !.next = Some(r.res)]
    /\ UNCHANGED <<evalVars, apiVars, tokVars, cursorVars, scanVars>>

\* parse_statement(&mut TokenStream::new(text)), on a block
ParseStatement ==
    /\ parser.op = "new"
    /\ parser.enclosure = "block"
    /\ \E r \in {call_statement("parse_statement", TokenStreamNew(parser.text))} :
           parser' = [parser EXCEPT !.op = "parse_statement",
                                    !.result = Some(StatementOutcome(r))]
    /\ UNCHANGED <<evalVars, apiVars, tokVars, cursorVars, scanVars>>

\* parse_declaration(&mut TokenStream::new(text)), on a function declaration
ParseDeclaration ==
    /\ parser.op = "new"
    /\ parser.enclosure = "function"
    /\ \E r \in {call_statement("parse_declaration", TokenStreamNew(parser.text))} :
           parser' = [parser EXCEPT !.op = "parse_declaration",
                                    !.result = Some(StatementOutcome(r))]
    /\ UNCHANGED <<evalVars, apiVars, tokVars, cursorVars, scanVars>>

NextDeclarations ==
    ParseDeclarations \/ NextAfterDeclarations \/ ParseStatement \/ ParseDeclaration

SpecDeclarations == InitDeclarations /\ [][NextDeclarations]_vars

---------------------------------------------------------------------------
(* Properties of the evaluator, checked under Spec.                        *)

\* C1: for blocks nested to any depth, a `var` inside a block hides the binding
\* of the enclosing scope only until the block exits: inside, the name reads as
\* the inner value (2); after the block, as the enclosing binding's value (1).
C1_ShadowingAtAnyDepth ==
    \A d \in Depths :
        (stmts = ShadowProgram(d) /\ Finished) => (out = <<"2", "1">> /\ reported = <<>>)

\* C2: every Block, For and user-function call ends with the frame stack as deep
\* as it was when it started, on every exit path (normal, runtime error, Return):
\* so no top-level statement, whatever it contains, changes the depth of the stack.
C2_FramesBalanced == [][Len(env'.stack) = Len(env.stack)]_vars

\* C3: a call binds its parameters in its own frame, which is gone after the call:
\* the caller's x keeps its value across f(5), the parameter x is not left bound
\* in the caller's scope, and a nested or recursive call leaves the caller's
\* parameter as it was; also when frames are already on the stack.
C3_CallFrame ==
    Finished =>
        /\ \A d \in Depths :
              stmts = KeepProgram(d) => (out = <<"1">> /\ reported = <<>>)
        /\ \A d \in Depths :
              stmts = LeakProgram(d) =>
                  /\ out = <<>>
                  /\ Len(reported) = 1
                  /\ reported[1].kind = "UnboundName"
                  /\ reported[1].name = "x"
        /\ stmts = NestedCall => out = <<"1">>
        /\ stmts = RecursiveCall => out = <<"1">>

\* C4: a call whose body executes `return e`, at any nesting of blocks,
\* conditionals and loops, yields the value of e and runs no body statement after
\* it; the Return signal stops at the nearest enclosing call; a body that ends
\* without a return yields nil.
C4_Return ==
    Finished =>
        /\ \A d \in Depths :
              stmts = ReturnProgram(d) => (out = <<"42">> /\ reported = <<>>)
        /\ stmts = ReturnInBlock => (out = <<"1">> /\ reported = <<>>)
        /\ stmts = ReturnInFor => (out = <<"2">> /\ reported = <<>>)
        /\ stmts = ReturnInLoop => (out = <<"7">> /\ reported = <<>>)
        /\ stmts = NoReturn => (out = <<"h", "nil">> /\ reported = <<>>)
        /\ stmts = NearestCall => (out = <<"1", "after", "2">> /\ reported = <<>>)
        /\ stmts = ReturnNil => (out = <<"nil">> /\ reported = <<>>)

\* C4 witness: the return inside MaxNest nested blocks of the body has yielded 42
\* to the caller and neither `print "dead"` has run.
C4_Witness == stmts = ReturnProgram(MaxNest) /\ Finished /\ out = <<"42">>

\* The statement is `a or b;`, `a and b;` or a print of one of them.
LogicStatement(s) ==
    /\ s.k \in {"Print", "Expression"}
    /\ s.expr.k = "Binary"
    /\ s.expr.operator \in {"Disjunction", "Conjunction"}

\* The step has left the evaluator as r left it, with r's own value printed when
\* the statement is a print, and has reported nothing.
YieldsOperand(s, r) ==
    /\ env' = r.ev.env
    /\ out' = IF s.k = "Print" THEN Append(r.ev.out, Display(r.value.value)) ELSE r.ev.out
    /\ reported' = reported
    /\ halted' = halted

\* C5: `a or b` yields a's own value and does not evaluate b when a is truthy, and
\* otherwise yields b's value; `a and b` yields a's own value and does not evaluate
\* b when a is nil or false, and otherwise yields b's value.  When b is not
\* evaluated the environment and the output are as a left them.
C5_ShortCircuit ==
    [][(Running /\ LogicStatement(stmts[pc])) =>
          \E now \in ClockTicks :
          \A a \in {visit_expression(stmts[pc].expr.left, Evaluator(now))} :
              a.ok =>
                  IF is_truthy(a.value.value) = (stmts[pc].expr.operator = "Disjunction")
                  THEN YieldsOperand(stmts[pc], a)
                  ELSE \A b \in {visit_expression(stmts[pc].expr.right, a.ev)} :
                           b.ok => YieldsOperand(stmts[pc], b)]_vars

\* C5 witness: `true or p()` and `nil and p()` have printed the left operand
\* without running p, `false or p()` and `1 and p()` have run p and printed its 1.
C5_Witness ==
    stmts = LogicEffects /\ Finished /\ out = <<"true", "p", "1", "nil", "p", "1">>

\* The statement is a call, or a print of a call.
CallStatement(s) == s.k \in {"Print", "Expression"} /\ s.expr.k = "Call"

Callable(v) == v.type \in {"Function", "NativeFunction", "Class"}

\* Parameter count, registered arity, and 0.
Arity(v) ==
    CASE v.type = "Function" -> Len(v.fn.args)
      [] v.type = "NativeFunction" -> v.arity
      [] v.type = "Class" -> 0

\* C6: a call of a user function, a native or a class with a number of arguments
\* other than its arity yields InvalidArgumentCount(call span, arity, number of
\* arguments); no frame is pushed and no body statement runs: the environment and
\* the output are as the evaluation of the callee and the arguments left them.
C6_ArityMismatch ==
    [][(Running /\ CallStatement(stmts[pc])) =>
          \E now \in ClockTicks :
          \A callee \in {visit_expression(stmts[pc].expr.callee, Evaluator(now))} :
              callee.ok =>
                  \A args \in {visit_arguments(stmts[pc].expr.arguments, 1, <<>>,
                                               callee.ev)} :
                      (/\ args.ok
                       /\ Callable(callee.value.value)
                       /\ Len(args.arguments) # Arity(callee.value.value)) =>
                          /\ reported' =
                                 Append(reported,
                                        InvalidArgumentCount(stmts[pc].expr.location,
                                                             Arity(callee.value.value),
                                                             Len(args.arguments)))
                          /\ env' = args.ev.env
                          /\ out' = args.ev.out
                          /\ halted' = halted]_vars

\* C6 witness: `f();` and `f(1, 2);` on fun f(x) have been reported with
\* (expected 1, actual 0) and (expected 1, actual 2), and only `f(1);` ran the body.
C6_Witness ==
    /\ stmts = ArityFunction
    /\ Finished
    /\ out = <<"body">>
    /\ reported = <<InvalidArgumentCount(stmts[2].expr.location, 1, 0),
                    InvalidArgumentCount(stmts[3].expr.location, 1, 2)>>

---------------------------------------------------------------------------
(* Properties of the Environment, checked under SpecEnv.                   *)

\* The frames of the stack that bind the name, and the innermost of them.
Holders(e, name) == {i \in 1..Len(e.stack) : name \in DOMAIN e.stack[i]}
Innermost(e, name) == CHOOSE i \in Holders(e, name) : \A j \in Holders(e, name) : j <= i

\* C7: define(name, value) inserts or overwrites the binding in the innermost (most
\* recently pushed) frame when the stack is non-empty and in the global frame when
\* it is empty, and leaves every other frame unchanged.
C7_DefineInnermost ==
    apiLast.op = "define" =>
        apiEnv = IF Len(apiLast.pre.stack) > 0
                 THEN [apiLast.pre EXCEPT !.stack[Len(apiLast.pre.stack)] =
                           insert(@, apiLast.name, apiLast.value)]
                 ELSE [apiLast.pre EXCEPT !.global = insert(@, apiLast.name, apiLast.value)]

\* C8: assign(name, value) overwrites the binding in the innermost frame that
\* contains the name, or in the global frame when no frame of the stack contains
\* it, and changes nothing else; when the name is bound nowhere it returns
\* UnboundName(span of the value, name) and changes nothing.
C8_Assign ==
    apiLast.op = "assign" =>
        LET pre == apiLast.pre
            name == apiLast.name
        IN IF Holders(pre, name) # {}
           THEN /\ apiLast.res.ok
                /\ apiEnv = [pre EXCEPT !.stack[Innermost(pre, name)][name] =
                                 apiLast.value.value]
           ELSE IF name \in DOMAIN pre.global
           THEN /\ apiLast.res.ok
                /\ apiEnv = [pre EXCEPT !.global[name] = apiLast.value.value]
           ELSE /\ apiLast.res =
                       [ok |-> FALSE, err |-> UnboundName(apiLast.value.location, name)]
                /\ apiEnv = pre

\* C8 witness: the name was bound in a frame of the stack and in the global frame;
\* assign gave the frame's binding a new value and left the global one alone.
C8_Witness ==
    /\ apiLast.op = "assign"
    /\ Holders(apiLast.pre, apiLast.name) # {}
    /\ apiLast.name \in DOMAIN apiLast.pre.global
    /\ apiLast.pre.stack[1][apiLast.name] # apiLast.value.value
    /\ apiEnv.stack[1][apiLast.name] = apiLast.value.value
    /\ apiEnv.global = apiLast.pre.global

---------------------------------------------------------------------------
(* Properties of the TokenStream, checked under SpecTok.                   *)

\* C10: from any position, peek gives the token the following next gives; any
\* number of peeks in a row give the same token and leave the position of the
\* stream where it was; at the end of the input peek gives nothing, and so does
\* the next that follows.
C10_PeekThenNext ==
    /\ (tsLast.op \in {"next", "peek"} /\ tsLast.before.op = "peek") =>
           tsLast.res = tsLast.before.res
    /\ tsLast.op = "peek" =>
           /\ ~tsLast.panicked
           /\ save_position(ts) = save_position(tsLast.pre)

\* C10 witness: past the first token, a next that follows a peek has given the
\* token the peek gave.
C10_Witness ==
    /\ tsLast.op = "next"
    /\ tsLast.before.op = "peek"
    /\ tsLast.res # None
    /\ tsLast.res = tsLast.before.res
    /\ save_position(tsLast.pre).position >= 1


\* The tokens the following calls of next give, up to the end of the input.
RECURSIVE TokensFrom(_)
TokensFrom(t) ==
    Let(next(t), LAMBDA r :
        IF r.panic THEN <<"panic">>
        ELSE IF r.res = None THEN <<>>
        ELSE <<r.res[1]>> \o TokensFrom(r.ts))

\* C11: after s = save_position() and any calls of next, peek and back,
\* load_position(s) restores the stream: the following calls of next give the
\* tokens they would have given from the position where s was taken, also when s
\* was taken at the end of the tokens scanned so far and more were scanned since.
C11_SaveLoad ==
    tsLast.op = "load_position" => TokensFrom(ts) = TokensFrom(tsLast.at[1])

\* C11 witness: the position was saved at the end of the tokens scanned so far,
\* more tokens were scanned, and load_position has gone back to where they start.
C11_Witness ==
    /\ tsLast.op = "load_position"
    /\ tsLast.at[1].pos = End
    /\ Len(ts.vec) > Len(tsLast.at[1].vec)
    /\ TokensFrom(ts) # <<>>
    /\ TokensFrom(ts) = TokensFrom(tsLast.at[1])

\* C12: back moves the position exactly one token earlier, so that the next that
\* follows gives the token the previous next gave; with no token before the
\* position (a fresh stream, a position rewound to index 0) back fails.
C12_Back ==
    tsLast.op = "back" =>
        IF save_position(tsLast.pre).position = 0
        THEN tsLast.panicked
        ELSE /\ ~tsLast.panicked
             /\ save_position(ts).position = save_position(tsLast.pre).position - 1
             /\ (tsLast.before.op = "next" /\ tsLast.before.res # None) =>
                    next(ts).res = tsLast.before.res

\* C12 witness: back after a next that gave a token; the next to come gives it again.
C12_Witness ==
    /\ tsLast.op = "back"
    /\ ~tsLast.panicked
    /\ tsLast.before.op = "next"
    /\ tsLast.before.res # None
    /\ next(ts).res = tsLast.before.res

\* C13: after any calls of next, peek, back, save_position and load_position,
\* current_position is the end of the token the stream returned last, or the start
\* of the source when it has returned none.
C13_CurrentPosition ==
    current_position(ts) = IF tsLast.returned = None THEN LocationStart
                           ELSE tsLast.returned[1].span.end

---------------------------------------------------------------------------
(* Properties of the character cursor, checked under SpecCursor.           *)

\* The location after the characters: one line further for each newline, and as
\* many columns as there are characters after the last newline.
LocationAfter(chars) ==
    LET newlines == {i \in 1..Len(chars) : chars[i] = "\n"}
        last == IF newlines = {} THEN 0 ELSE CHOOSE i \in newlines : \A j \in newlines : j <= i
    IN Location(1 + Cardinality(newlines), Len(chars) - last)

\* C14: whatever the interleaving of peek, peek_2, peek_location, peek_location_2
\* and next, the characters next returns are the characters of the input in input
\* order, next returns nothing only after all of them, and get_location is the
\* location (1,0) advanced over the characters next has returned: lookahead never
\* changes it.
C14_Lookahead ==
    /\ cursorLast.returned = SubSeq(cursorLast.text, 1, Len(cursorLast.returned))
    /\ (cursorLast.op = "next" /\ cursorLast.res = None) =>
           cursorLast.returned = cursorLast.text
    /\ get_location(cursor) = LocationAfter(cursorLast.returned)

\* C14 witness: with two characters of lookahead buffered, the second a newline,
\* next has returned the first and the location has moved by that one character.
C14_Witness ==
    /\ cursorLast.op = "next"
    /\ cursorLast.pre.peek_2 = Some("\n")
    /\ cursorLast.res # None
    /\ cursorLast.returned # <<>>
    /\ get_location(cursor) = LocationAfter(cursorLast.returned)

---------------------------------------------------------------------------
(* Properties of the scanner, checked under SpecScan.                      *)

\* The first location is not after the second.
NotAfter(a, b) == a.line < b.line \/ (a.line = b.line /\ a.char <= b.char)

\* The number of characters of the text before the location, and the characters
\* of the text a span covers.
OffsetOf(text, loc) ==
    CHOOSE n \in 0..Len(text) : LocationAfter(SubSeq(text, 1, n)) = loc

Lexeme(text, span) ==
    SubSeq(text, OffsetOf(text, span.start) + 1, OffsetOf(text, span.end))

\* The tokens scanned so far, the EOF token left out.
Scanned == SelectSeq(scanner.vec, LAMBDA t : t.token # EOF)

\* C18: the span of every token emitted runs from the scanner's start to the
\* cursor's location after the token, and start is then that location; so, over
\* any input, invalid characters included, the spans of successive tokens do not
\* overlap and their starts never decrease.
C18_Spans ==
    /\ \A i \in 1..Len(Scanned) - 1 :
           /\ NotAfter(Scanned[i].span.end, Scanned[i + 1].span.start)
           /\ NotAfter(Scanned[i].span.start, Scanned[i + 1].span.start)
    /\ (Scanned # <<>> /\ Scanned = scanner.vec) =>
           /\ Scanned[Len(Scanned)].span.end = get_location(scanner.source)
           /\ scanner.loc = get_location(scanner.source)

\* C19: a number is digits, optionally followed by a dot and at least one digit:
\* a dot that no digit follows is not consumed, so no number token ends with a
\* dot, and `1.` is Number(1) over one character followed by a Dot token.
C19_TrailingDot ==
    /\ \A i \in 1..Len(Scanned) :
           Scanned[i].token.type = "Number" =>
               LET lexeme == Lexeme(scanner.text, Scanned[i].span) IN
               lexeme # <<>> /\ lexeme[Len(lexeme)] # "."
    /\ (scanner.text = <<"1", ".">> /\ scanner.done) =>
           Scanned = <<Token(TokenTypeOf("Number", [int |-> 1, frac |-> <<>>]),
                             Span(0, 1)),
                       Token(TokenType("Dot"), Span(1, 2))>>

\* The single and the two-character token of each of ! = < >.
Single == [c \in {"!", "=", "<", ">"} |->
              CASE c = "!" -> "Bang" [] c = "=" -> "Equal" [] c = "<" -> "Less"
                [] c = ">" -> "Greater"]
Composite == [c \in {"!", "=", "<", ">"} |->
                 CASE c = "!" -> "BangEqual" [] c = "=" -> "EqualEqual"
                   [] c = "<" -> "LessEqual" [] c = ">" -> "GreaterEqual"]

\* C20: a token that starts with one of ! = < > is the two-character token,
\* over that character and one `=`, exactly when the next character is `=`, and
\* otherwise the single-character token over that character alone; so `!==` is
\* BangEqual then Equal.
C20_CompositeOperators ==
    /\ \A i \in 1..Len(Scanned) :
           LET first == OffsetOf(scanner.text, Scanned[i].span.start) + 1
               c == scanner.text[first]
               equal == first < Len(scanner.text) /\ scanner.text[first + 1] = "="
           IN (first <= Len(scanner.text) /\ c \in DOMAIN Single) =>
                  /\ Scanned[i].token = TokenType(IF equal THEN Composite[c] ELSE Single[c])
                  /\ Lexeme(scanner.text, Scanned[i].span) =
                         IF equal THEN <<c, "=">> ELSE <<c>>
    /\ (scanner.text = <<"!", "=", "=">> /\ scanner.done) =>
           Scanned = <<Token(TokenType("BangEqual"), Span(0, 2)),
                       Token(TokenType("Equal"), Span(2, 3))>>

---------------------------------------------------------------------------
(* Properties of the parser, checked under SpecParse.                      *)

\* An expression without its locations: the kinds of its nodes, their operators
\* and values, and the nesting of their operands.
RECURSIVE Shape(_)
Shape(expr) ==
    CASE expr.k = "Literal" -> [k |-> "Literal", value |-> expr.value]
      [] expr.k = "Identifier" -> [k |-> "Identifier", ident |-> expr.ident]
      [] expr.k = "Unary" -> [k |-> "Unary", op |-> expr.op, expr |-> Shape(expr.expr)]
      [] expr.k = "Binary" ->
             [k |-> "Binary", operator |-> expr.operator, left |-> Shape(expr.left),
              right |-> Shape(expr.right)]
      [] expr.k = "Assignment" ->
             [k |-> "Assignment", ident |-> expr.ident.ident, expr |-> Shape(expr.expr)]
      [] expr.k = "Call" ->
             [k |-> "Call", callee |-> Shape(expr.callee),
              arguments |-> [i \in DOMAIN expr.arguments |-> Shape(expr.arguments[i])]]

\* C15: the canonical text of an expression the parser gave, parsed again, gives
\* a structurally equal expression: the same operators and the same nesting of
\* operands.
C15_RoundTrip ==
    parser.op = "print" =>
        /\ parser.again[1].ok
        /\ Shape(parser.again[1].expr) = Shape(parser.result[1].expr)

\* The location moved n columns to the right.
ShiftRight(loc, n) == Location(loc.line, loc.char + n)

\* C16 as stated: assignment is right-associative; whenever the expression to the
\* left of `=` is not an identifier, parsing fails with InvalidAssignmentTarget,
\* whose span runs from the start of the left expression to the end of the
\* right-hand side; an identifier on the left always gives an Assignment node.
C16_AssignmentAlways ==
    \A left \in LeftPieces, right \in RightPieces :
        (parser.op = "parse" /\ parser.text = AssignmentText(left, right)) =>
            \A l \in {Parse(left)}, r \in {Parse(right)}, result \in {parser.result[1]} :
                IF l.expr.k = "Identifier"
                THEN result.ok /\ result.expr.k = "Assignment"
                ELSE /\ ~result.ok
                     /\ result.err.error = "InvalidAssignmentTarget"
                     /\ r.ok => result.err.span =
                                    CodeSpan(l.expr.location.start,
                                             ShiftRight(r.expr.location.end, Len(left) + 3))

\* C16: assignment is right-associative (`a = b = 1` is a = (b = 1)).  When the
\* right-hand side of an assignment parses: if the expression parsed to the left
\* of `=` is not an identifier, parsing fails with InvalidAssignmentTarget, whose
\* span runs from the start of the location of the left expression to the end of
\* the location of the right-hand side; if it is an identifier, the result is an
\* Assignment node of that identifier and the right-hand side, with that span.
\* When the right-hand side does not parse, the result is its error.
C16_Assignment ==
    /\ \A left \in LeftPieces, right \in RightPieces :
           (parser.op = "parse" /\ parser.text = AssignmentText(left, right)) =>
               \A l \in {Parse(left)}, r \in {Parse(right)}, result \in {parser.result[1]} :
                   LET shift == Len(left) + 3 IN
                   IF ~r.ok
                   THEN /\ ~result.ok
                        /\ result.err.error = r.err.error
                        /\ result.err.error = "InvalidAssignmentTarget" =>
                               result.err.span =
                                   CodeSpan(ShiftRight(r.err.span.start, shift),
                                            ShiftRight(r.err.span.end, shift))
                   ELSE LET span == CodeSpan(l.expr.location.start,
                                             ShiftRight(r.expr.location.end, shift)) IN
                        IF l.expr.k = "Identifier"
                        THEN /\ result.ok
                             /\ Shape(result.expr) =
                                    [k |-> "Assignment", ident |-> l.expr.ident,
                                     expr |-> Shape(r.expr)]
                             /\ result.expr.location = span
                        ELSE /\ ~result.ok
                             /\ result.err = InvalidAssignmentTarget(span)
    /\ (parser.op = "parse" /\ parser.text = <<"a", " ", "=", " ", "b", " ", "=", " ", "1">>) =>
           /\ parser.result[1].ok
           /\ Shape(parser.result[1].expr) =
                  [k |-> "Assignment", ident |-> "a",
                   expr |-> [k |-> "Assignment", ident |-> "b",
                             expr |-> [k |-> "Literal",
                                       value |-> NumberLiteral([int |-> 1, frac |-> <<>>])]]]

\* `a + b = -b` was parsed: the target is not an identifier, and the error has the
\* span from the start of a + b to the end of the location of -b, its operator.
C16_Witness ==
    /\ parser.op = "parse"
    /\ parser.text = <<"a", " ", "+", " ", "b", " ", "=", " ", "-", "b">>
    /\ parser.result[1] = [ok |-> FALSE, err |-> InvalidAssignmentTarget(Span(0, 9))]

\* The level of each binary operator: or < and < equality < comparison < term <
\* factor.
Level ==
    [op \in BinaryOperators |->
        CASE op = <<"o", "r">> -> 1
          [] op = <<"a", "n", "d">> -> 2
          [] op \in {<<"=", "=">>, <<"!", "=">>} -> 3
          [] op \in {<<"<">>, <<"<", "=">>, <<">">>, <<">", "=">>} -> 4
          [] op \in {<<"+">>, <<"-">>} -> 5
          [] op \in {<<"*">>, <<"/">>} -> 6]

\* The operator an operator's text stands for.
OperatorOf(op) ==
    CHOOSE operator \in DOMAIN BinaryOperatorDisplay : BinaryOperatorDisplay[operator] = op

Operation(op, left, right) ==
    [k |-> "Binary", operator |-> OperatorOf(op), left |-> left, right |-> right]
Operand(name) == [k |-> "Identifier", ident |-> name]

---------------------------------------------------------------------------
(* Properties of the operators, as seen through the driver.               *)

\* C21: f == f is true for a function f and for another name of the same
\* function, f == g is false for two declared functions, and != gives the
\* negation of == on each pair.
C21_FunctionEquality ==
    (Finished /\ stmts = FunctionEquality) =>
        /\ out = <<"true", "true", "false", "false", "true">>
        /\ reported = <<>>

\* The program is one statement `print l op r;` where op is one of - * / < <= > >=
\* and each operand is a literal or the name of the native function clock.
IsSimpleOperand(expr) ==
    \/ expr.k = "Literal"
    \/ expr.k = "Identifier" /\ expr.ident = "clock"

IsStrictOperation ==
    /\ Len(stmts) = 1
    /\ stmts[1].k = "Print"
    /\ stmts[1].expr.k = "Binary"
    /\ stmts[1].expr.operator \in StrictOperators
    /\ IsSimpleOperand(stmts[1].expr.left)
    /\ IsSimpleOperand(stmts[1].expr.right)

\* The type of the value a simple operand evaluates to.
OperandType(expr) ==
    IF expr.k = "Identifier" THEN "NativeFunction"
    ELSE CASE expr.value.lit = "NumberLiteral" -> "Number"
           [] expr.value.lit = "StringLiteral" -> "String"
           [] expr.value.lit \in {"True", "False"} -> "Boolean"
           [] expr.value.lit = "Nil" -> "Nil"

\* Nothing was printed and the one error reported is MismatchedTypes at the span.
MismatchedTypesAt(span) ==
    /\ out = <<>>
    /\ Len(reported) = 1
    /\ reported[1].kind = "MismatchedTypes"
    /\ reported[1].span = span

\* C22: for - * / < <= > >=, a left operand that is not a Number gives
\* MismatchedTypes at the left operand, otherwise a right operand that is not a
\* Number gives MismatchedTypes at the right operand; no other error comes out
\* when an operand is not a Number.
C22_FirstNonNumber ==
    (Finished /\ IsStrictOperation) =>
        LET left == stmts[1].expr.left
            right == stmts[1].expr.right
        IN  /\ OperandType(left) # "Number" => MismatchedTypesAt(left.location)
            /\ (OperandType(left) = "Number" /\ OperandType(right) # "Number")
                   => MismatchedTypesAt(right.location)

\* C23: with two numbers, `/` by 0 reports DivisionByZero from the start of the
\* left operand to the end of the right operand and prints nothing; `/` by a
\* number other than 0 prints the quotient.
C23_DivisionByZero ==
    (Finished /\ IsStrictOperation /\ stmts[1].expr.operator = "Division") =>
        LET left == stmts[1].expr.left
            right == stmts[1].expr.right
        IN  (OperandType(left) = "Number" /\ OperandType(right) = "Number") =>
                IF right.value.val = 0
                THEN /\ out = <<>>
                     /\ reported =
                            <<[kind |-> "DivisionByZero",
                               span |-> [start |-> left.location.start,
                                         end |-> right.location.end]]>>
                ELSE /\ out = <<ToString(left.value.val \div right.value.val)>>
                     /\ reported = <<>>

\* C23 witness: `print 6 / 0;` has reported DivisionByZero over columns 6 to 11 and
\* printed nothing.
C23_Witness ==
    /\ Finished
    /\ IsStrictOperation
    /\ stmts[1].expr.operator = "Division"
    /\ OperandType(stmts[1].expr.left) = "Number"
    /\ OperandType(stmts[1].expr.right) = "Number"
    /\ stmts[1].expr.left.value.val = 6
    /\ stmts[1].expr.right.value.val = 0
    /\ out = <<>>
    /\ reported = <<DivisionByZero(Span(6, 11))>>

\* C25: a MismatchedTypes error carries the type of the offending operand, and
\* that type is not one of the allowed types it lists.
C25_ActualType ==
    \A i \in DOMAIN reported :
        reported[i].kind = "MismatchedTypes" =>
            /\ reported[i].actual \notin reported[i].allowed
            /\ IsStrictOperation =>
                   \E operand \in {stmts[1].expr.left, stmts[1].expr.right} :
                       /\ operand.location = reported[i].span
                       /\ OperandType(operand) = reported[i].actual

\* The loop `for (var i = 0; i < 2; i = i + 1) print i;` followed by `print i;` has
\* printed 0 and 1 and reported i as unbound.
LoopVariableGone ==
    /\ out = <<"0", "1">>
    /\ Len(reported) = 1
    /\ reported[1].kind = "UnboundName"
    /\ reported[1].name = "i"

\* C24: a for loop runs its initializer once, evaluates the condition before each
\* iteration, the first included, runs the step after the body, and the binding
\* its initializer made is gone after the loop, at top level, in a block and in a
\* function body.
C24_ForLoop ==
    Finished =>
        /\ stmts = ForOrder =>
               (out = <<"c", "0", "s", "c", "1", "s", "c">> /\ reported = <<>>)
        /\ stmts = ForFalseAtOnce => (out = <<"end">> /\ reported = <<>>)
        /\ stmts = ForNoStep => (out = <<"0", "1", "end">> /\ reported = <<>>)
        /\ stmts = ForTopLevel => LoopVariableGone
        /\ stmts = ForInBlock => LoopVariableGone
        /\ stmts = ForInFunction => LoopVariableGone

\* C27: once a top-level statement has failed with a runtime error, the run of
\* the input is over: nothing more is printed, no further error is reported
\* and the environment stays as the failing statement left it.
C27_HaltsOnError ==
    [][reported # <<>> => (out' = out /\ reported' = reported /\ env' = env)]_vars

\* One error was reported, of the given kind, and the output is as given.
FailedWith(kind, output) ==
    /\ out = output
    /\ Len(reported) = 1
    /\ reported[1].kind = kind

\* C28: a call evaluates its callee, then its arguments from left to right, and
\* only then looks at the kind and the arity of the callee: a call that fails
\* with NotCallable or InvalidArgumentCount has made the assignments of all its
\* arguments, and an argument that fails stops the later arguments and the call.
C28_CallOrder ==
    Finished =>
        /\ stmts = CallNotCallable => FailedWith("NotCallable", <<"2">>)
        /\ stmts = ArityEffects => FailedWith("InvalidArgumentCount", <<"2">>)
        /\ stmts = CallArgumentError =>
               (FailedWith("UnboundName", <<"1">>) /\ reported[1].name = "nope")
        /\ stmts = CallCalleeError =>
               (FailedWith("UnboundName", <<"0">>) /\ reported[1].name = "nope")
        /\ stmts = CallCalleeFirst => (out = <<"1", "1">> /\ reported = <<>>)

\* C28 witness: `"s"(a = 1, a = a + 1)` has failed with NotCallable and the
\* `print a` after it has printed 2.
C28_Witness == Finished /\ stmts = CallNotCallable /\ FailedWith("NotCallable", <<"2">>)

\* C29: whatever push_env, pop_env, define and assign calls were made, every
\* frame of the stack above the bottom one is empty.
C29_OnlyBottomFrameBinds ==
    \A i \in 2..Len(apiEnv.stack) : DOMAIN apiEnv.stack[i] = {}

\* C29 witness: a define made with two frames or more on the stack has bound its
\* name in the bottom frame.
C29_Witness ==
    /\ apiLast.op = "define"
    /\ Len(apiLast.pre.stack) >= 2
    /\ apiLast.name \notin DOMAIN apiLast.pre.stack[1]
    /\ apiLast.name \in DOMAIN apiEnv.stack[1]
    /\ DOMAIN apiEnv.stack[Len(apiEnv.stack)] = {}

---------------------------------------------------------------------------
(* Properties of the parser of declarations, checked under                 *)
(* SpecDeclarations.                                                       *)

\* The number of tokens of a text.
TokenCount(text) == Len(TokensFrom(TokenStreamNew(text)))

\* The number of tokens of the declarations of a list.
RECURSIVE GoodTokens(_)
GoodTokens(goods) ==
    IF goods = <<>> THEN 0
    ELSE TokenCount(GoodDeclarations[Head(goods)]) + GoodTokens(Tail(goods))

\* A token, the given number of columns further on its line.
Shifted(token, columns) ==
    [token EXCEPT !.span.start.char = @ + columns, !.span.end.char = @ + columns]

\* The first token of what follows the declarations that parse, where it stands
\* in the text of the state: nothing when nothing follows them.
FirstOfLast(p) ==
    IF LastText(p.last) = <<>> THEN None
    ELSE Some(Shifted(next(TokenStreamNew(LastText(p.last))).res[1],
                      Len(p.text) - Len(LastText(p.last))))

\* C30: parse_declarations never fails: it gives the declarations that come
\* before the first one that does not parse, and leaves the stream right after
\* the last one that parsed (where it started, when none did), so that the next
\* token is the first token of the declaration that failed, however many tokens
\* the failed attempt had read.
C30_ParseDeclarations ==
    parser.op \in {"parse_declarations", "next"} =>
        /\ parser.result[1].ok
        /\ Len(parser.result[1].stmts) = Len(parser.goods)
        /\ \A i \in 1..Len(parser.goods) :
               parser.result[1].stmts[i].k = GoodDeclarationKind[parser.goods[i]]
        /\ save_position(parser.result[1].ts).position = GoodTokens(parser.goods)
        /\ parser.op = "next" => parser.next[1] = FirstOfLast(parser)

\* C30 witness: a declaration parsed, the attempt on the one after it read more
\* than its first token before it failed, and the next token is that first token.
C30_Witness ==
    /\ parser.op = "next"
    /\ parser.goods # <<>>
    /\ parser.last.bad
    /\ Len(parser.result[1].stmts) = Len(parser.goods)
    /\ Len(parser.result[1].ts.vec) > GoodTokens(parser.goods) + 1
    /\ parser.next[1] # None
    /\ parser.next[1] = FirstOfLast(parser)

\* The stream after n calls of next.
RECURSIVE Skipped(_, _)
Skipped(t, n) == IF n = 0 THEN t ELSE Skipped(next(t).ts, n - 1)

\* The tokens before the declarations of an enclosure: `{`, or `fun g ( ) {`.
EnclosureTokens == "block" :> 1 @@ "function" :> 5

\* What parse_declaration gives on the first declaration of the enclosure of the
\* state that parse_declarations leaves unparsed.
FirstFailure(p) ==
    call_statement("parse_declaration",
                   call_statement("parse_declarations",
                                  Skipped(TokenStreamNew(p.text),
                                          EnclosureTokens[p.enclosure])).ts)

\* Where a ParsingError is.
ErrorSpan(err) ==
    CASE err.error = "UnexpectedToken" -> err.tok.span
      [] err.error = "UnexpectedEndOfTokenStream" -> CodeSpan(err.loc, err.loc)
      [] OTHER -> err.span

\* C26: when a declaration inside a block or a function body fails to parse,
\* the parse of the block or of the function fails with that same error, of the
\* same kind and at the same place.
C26_SameFirstError ==
    (parser.op \in {"parse_statement", "parse_declaration"} /\ parser.last.bad) =>
        \A first \in {FirstFailure(parser)} :
            ~first.ok =>
                /\ ~parser.result[1].ok
                /\ parser.result[1].err.error = first.err.error
                /\ ErrorSpan(parser.result[1].err) = ErrorSpan(first.err)

=============================================================================
